---- MODULE Spec2Model ----
(***************************************************************************)
(* State-machine model of the kube-workspace operator.                     *)
(*                                                                         *)
(*   - the cluster objects of one namespace (PersistentVolumeClaims,       *)
(*     Services, Pods) as seen through src/src/client.rs;                  *)
(*   - the API requests PodStart / PodStatus / PodStop of                  *)
(*     src/src/server/api.rs, each running the reconciler of               *)
(*     src/src/operator/mod.rs one cluster call at a time (every `.await`  *)
(*     on a cluster call is one step, so requests and the sweeper          *)
(*     interleave exactly at the suspension points of the code);           *)
(*   - the periodic sweeper (run_loop / run_checks / check_pods);          *)
(*   - Config::verify_user of src/src/config.rs and                        *)
(*     PodMetricsAnnotion::should_shutdown as pure functions;              *)
(*   - the startup of the process (main, Operator::launch).                *)
(*                                                                         *)
(* Specifications: Spec (concurrent API requests and the kubelet),         *)
(* SweepSpec (API requests, the sweeper and the clock together),           *)
(* VerifySpec (verify_user over whitelists, usernames and keys),           *)
(* ShutdownSpec (should_shutdown over annotations and configurations),     *)
(* TickSpec (the sweeper over annotated pods that already run) and         *)
(* LaunchSpec (startup, then sweeper and requests, the clock standing),    *)
(* PhaseSpec (WorkspacePhase::from_pod over pods), AddressSpec (the        *)
(* ssh_address of a response over services, pods and nodes),               *)
(* QuantitySpec (parse_quantity over quantity strings), RestartSpec        *)
(* (PodStart requests while the sweeper shuts an idle workspace down),     *)
(* CpuSpec (cpu_is_idle over metrics listings and configurations),         *)
(* GaugeSpec (the sweeper over pods of every phase), SkewSpec (the sweeper *)
(* over annotations dated after the clock), MetricsSpec (the sweeper over  *)
(* metrics listings with one quantity per pod) and LiveSpec (the sweeper   *)
(* and the clock under fair scheduling, over one idle workspace).          *)
(*                                                                         *)
(* Option<T> is modelled as a sequence: <<>> is None, <<x>> is Some(x).    *)
(* Strings that are trimmed are sequences of one-character strings.        *)
(***************************************************************************)
EXTENDS Integers, Sequences, FiniteSets, TLC

VARIABLES
    config,     \* the immutable Config of the operator (State.config)
    cluster,    \* [pvcs, svcs, pods, monitor]: the objects of the namespace
    reqs,       \* one record per caller: the API request it has in flight
    nreq,       \* number of API requests received so far
    nextUid,    \* uid the API server gives to the next created pod
    now,        \* wall clock (chrono::Utc::now), in abstract time units
    sw,         \* the sweeper task: position in run_checks and its locals
    gauges,     \* OperatorMetrics: workspace_(un)available_count
    stopped,    \* per username: a PodStop returned Ok and no PodStart step since
    vin,        \* input of the verify_user and should_shutdown specifications
    vout,       \* its output
    proc        \* the process: position in main, exit status, what runs

vars == <<config, cluster, reqs, nreq, nextUid, now, sw, gauges, stopped, vin, vout,
          proc>>

-----------------------------------------------------------------------------
(* Bounds *)

\* number of API requests the HTTP layer receives in Spec
MaxReqs == 3
\* number of API requests the HTTP layer receives in SweepSpec
MaxSweepReqs == 2
\* number of pods the API server creates (uids 1..MaxUid)
MaxUid == 3
\* last value of the clock
MaxClock == 2
\* longest whitelist of the verify_user specification
MaxUsers == 2
MaxLaunchReqs == 1
MaxDigits == 3

\* concurrent callers (each has at most one request in flight)
Callers == {"c1", "c2"}

None == <<>>
Some(x) == <<x>>
IsSome(o) == o # <<>>
Unwrap(o) == o[1]

-----------------------------------------------------------------------------
(* Config::verify_user, src/src/config.rs *)

\* char::is_whitespace, for the characters of the model
Whitespace == {" ", "\t", "\n"}

RECURSIVE trim_start(_)
trim_start(s) ==
    IF s # <<>> /\ Head(s) \in Whitespace THEN trim_start(Tail(s)) ELSE s

RECURSIVE trim_end(_)
trim_end(s) ==
    IF s # <<>> /\ s[Len(s)] \in Whitespace
    THEN trim_end(SubSeq(s, 1, Len(s) - 1))
    ELSE s

\* str::trim: strip leading and trailing whitespace
trim(s) == trim_end(trim_start(s))

\* users.iter().find(|u| u.username == username): the FIRST matching entry
RECURSIVE find_user(_, _)
find_user(users, username) ==
    IF users = <<>> THEN None
    ELSE IF Head(users).username = username THEN Some(Head(users))
    ELSE find_user(Tail(users), username)

verify_user(users, username, ssh_key) ==
    LET found == find_user(users, username) IN
    IF found = None THEN [ok |-> FALSE, user |-> None, err |-> "Username not found"]
    ELSE IF trim(Unwrap(found).ssh_public_key) # trim(ssh_key)
         THEN [ok |-> FALSE, user |-> None, err |-> "Invalid/unknown ssh public key"]
         ELSE [ok |-> TRUE, user |-> found, err |-> ""]

-----------------------------------------------------------------------------
(* Names, src/src/operator/mod.rs *)

user_home_volume_name(user) == "workspace-" \o user.username
user_service_name(user) == "workspace-" \o user.username
user_pod_name(user) == "workspace-" \o user.username

-----------------------------------------------------------------------------
(* The cluster as seen through Client, src/src/client.rs.                  *)
(* A call returns [res, cluster]: res is "ok", or the API error            *)
(* ("conflict" = 409 AlreadyExists, "notfound" = 404).                     *)

NoAnnotation == None

\* the Pod the API server stores for a created schema: status.phase Pending,
\* not scheduled, no annotation
NewPod(name, username, uid) ==
    [name |-> name, user |-> username, uid |-> uid, deleting |-> FALSE,
     phase |-> Some("Pending"), ready |-> FALSE, node |-> None,
     annot |-> NoAnnotation]

PodsNamed(c, name) == {p \in c.pods : p.name = name}

\* Client::api_result_opt: 404 becomes None
volume_claim_opt(c, name) == IF name \in c.pvcs THEN Some(name) ELSE None

volume_claim_create(c, name) ==
    IF name \in c.pvcs THEN [res |-> "conflict", cluster |-> c]
    ELSE [res |-> "ok", cluster |-> [c EXCEPT !.pvcs = @ \cup {name}]]

service_opt(c, name) == IF name \in c.svcs THEN Some(name) ELSE None

service_create(c, name) ==
    IF name \in c.svcs THEN [res |-> "conflict", cluster |-> c]
    ELSE [res |-> "ok", cluster |-> [c EXCEPT !.svcs = @ \cup {name}]]

\* mutant: the delete goes to the volume claim of the same name as well
service_delete_claim(c, name) ==
    IF name \notin c.svcs THEN [res |-> "notfound", cluster |-> c]
    ELSE [res |-> "ok",
          cluster |-> [c EXCEPT !.svcs = @ \ {name}, !.pvcs = @ \ {name}]]

service_delete(c, name) ==
    IF name \notin c.svcs THEN [res |-> "notfound", cluster |-> c]
    ELSE [res |-> "ok", cluster |-> [c EXCEPT !.svcs = @ \ {name}]]

pod_opt(c, name) ==
    IF PodsNamed(c, name) = {} THEN None
    ELSE Some(CHOOSE p \in PodsNamed(c, name) : TRUE)

pod_create(c, pod) ==
    IF PodsNamed(c, pod.name) # {} THEN [res |-> "conflict", cluster |-> c]
    ELSE [res |-> "ok", cluster |-> [c EXCEPT !.pods = @ \cup {pod}]]

\* mutant: the delete of a pod takes the service of the workspace with it
pod_delete_with_service(c, name) ==
    IF PodsNamed(c, name) = {} THEN [res |-> "notfound", cluster |-> c]
    ELSE [res |-> "ok",
          cluster |-> [c EXCEPT !.svcs = @ \ {name}, !.pods =
              {IF p.name = name THEN [p EXCEPT !.deleting = TRUE] ELSE p : p \in @}]]

\* a pod delete is graceful: the pod gets its deletionTimestamp and stays
\* until the kubelet has stopped it (PodFinalized)
pod_delete(c, name) ==
    IF PodsNamed(c, name) = {} THEN [res |-> "notfound", cluster |-> c]
    ELSE [res |-> "ok",
          cluster |-> [c EXCEPT !.pods =
              {IF p.name = name THEN [p EXCEPT !.deleting = TRUE] ELSE p : p \in @}]]

\* mutant: the apply patch as an upsert, a missing pod is created from it
pod_patch_upsert(c, name, annot) ==
    IF PodsNamed(c, name) = {}
    THEN [res |-> "ok",
          cluster |-> [c EXCEPT !.pods =
              @ \cup {[NewPod(name, "", 0) EXCEPT !.annot = Some(annot)]}]]
    ELSE [res |-> "ok",
          cluster |-> [c EXCEPT !.pods =
              {IF p.name = name THEN [p EXCEPT !.annot = Some(annot)] ELSE p : p \in @}]]

\* the patch carries only metadata.annotations; it cannot create a pod
pod_patch(c, name, annot) ==
    IF PodsNamed(c, name) = {} THEN [res |-> "notfound", cluster |-> c]
    ELSE [res |-> "ok",
          cluster |-> [c EXCEPT !.pods =
              {IF p.name = name THEN [p EXCEPT !.annot = Some(annot)] ELSE p : p \in @}]]

-----------------------------------------------------------------------------
(* WorkspacePhase::from_pod, src/src/operator/types.rs *)

\* client::pod_containers_ready: status.container_statuses present and
\* every entry ready
pod_containers_ready(container_statuses) ==
    /\ IsSome(container_statuses)
    /\ \A k \in 1..Len(Unwrap(container_statuses)) : Unwrap(container_statuses)[k]

\* from_pod looking at status.phase before the deletion timestamp
WorkspacePhase_from_pod_phase_first(pod) ==
    IF pod.phase = Some("Pending") THEN "Starting"
    ELSE IF pod.phase = Some("Running") /\ pod.ready THEN "Ready"
    ELSE IF pod.phase = Some("Running") THEN "Starting"
    ELSE IF pod.phase = Some("Succeeded") THEN "Terminating"
    ELSE IF pod.phase = Some("Failed") THEN "Terminating"
    ELSE IF pod.deleting THEN "Terminating"
    ELSE "Unknown"

WorkspacePhase_from_pod(pod) ==
    IF pod.deleting THEN "Terminating"
    ELSE IF pod.phase = Some("Pending") THEN "Starting"
    ELSE IF pod.phase = Some("Running") /\ pod.ready THEN "Ready"
    ELSE IF pod.phase = Some("Running") THEN "Starting"
    ELSE IF pod.phase = Some("Succeeded") THEN "Terminating"
    ELSE IF pod.phase = Some("Failed") THEN "Terminating"
    ELSE "Unknown"

-----------------------------------------------------------------------------
(* API requests: run_query, src/src/server/api.rs, running the reconciler  *)
(* of src/src/operator/mod.rs.                                             *)
(*                                                                         *)
(* A request record holds the position of its run_query future (pc = the   *)
(* cluster call it is suspended on) and its locals.  Fields kept only for  *)
(* stating properties: log (the cluster calls issued, with outcomes),      *)
(* start (the objects of the user present when the request arrived),       *)
(* clean (nobody else changed the user's objects since), retry (the        *)
(* caller's previous PodStart for this user ended in AlreadyExists),       *)
(* sinceStop (a PodStop for the user had returned Ok before the request    *)
(* arrived and no PodStart step was taken since).                          *)

Kinds == {"PodStart", "PodStatus", "PodStop"}

NoReq ==
    [kind |-> "none", user |-> None, pc |-> "free", stage |-> 1,
     service |-> None, pod |-> None, node |-> None,
     res |-> "", err |-> "", phase |-> "",
     log |-> <<>>, start |-> {}, clean |-> TRUE, retry |-> FALSE,
     sinceStop |-> FALSE]

InFlight(r) == r.pc \notin {"free", "done"}

Username(r) == Unwrap(r.user).username

\* the objects of `user` present in cluster c
Triplet(c, user) ==
    (IF IsSome(volume_claim_opt(c, user_home_volume_name(user))) THEN {"pvc"} ELSE {})
    \cup (IF IsSome(service_opt(c, user_service_name(user))) THEN {"svc"} ELSE {})
    \cup (IF IsSome(pod_opt(c, user_pod_name(user))) THEN {"pod"} ELSE {})

\* mutant: PodStop goes on without a verified user
first_call_unverified(kind, verified) ==
    IF kind = "PodStop" \/ verified.ok
    THEN CASE kind = "PodStart" -> "vol_get"
           [] kind = "PodStatus" -> "svc_get"
           [] kind = "PodStop" -> "pod_get"
    ELSE "done"

\* run_query: `verify_user(..)?` comes first in every arm; the first cluster
\* call of the arm follows only when it returned Ok
first_call(kind, verified) ==
    IF verified.ok
    THEN CASE kind = "PodStart" -> "vol_get"
           [] kind = "PodStatus" -> "svc_get"
           [] kind = "PodStop" -> "pod_get"
    ELSE "done"

\* mutant: AlreadyExists is swallowed and the call goes on
propagate_swallow_conflict(res) == res \in {"ok", "conflict"}

\* the `?` after a cluster call: TRUE when the caller goes on
propagate(res) == res = "ok"

\* mutant: the claim is never created
ensure_user_home_volume_skip(claim_opt) == "return"

\* ensure_user_home_volume: reuse the claim or create it
ensure_user_home_volume(claim_opt) ==
    IF IsSome(claim_opt) THEN "return" ELSE "vol_create"

\* mutant: the service is created without looking
ensure_user_service_blind(svc_opt) == "svc_create"

\* ensure_user_service: reuse the service or create it
ensure_user_service(svc_opt) ==
    IF IsSome(svc_opt) THEN "pod_get" ELSE "svc_create"

\* mutant: the pod is created without looking
ensure_user_pod_blind(found) == "create_user_pod"

\* ensure_user_pod: reuse the pod or create it
ensure_user_pod(found) ==
    IF IsSome(found) THEN "status" ELSE "create_user_pod"

\* where the caller of ensure_user_home_volume goes on: ensure_user_pod
\* (stage 1) with the service, create_user_pod (stage 2) with pod_create
AfterVolume(stage) == IF stage = 1 THEN "svc_get" ELSE "pod_create"

\* mutant: the pod gets a generated name
create_user_pod_generate_name(user, uid) ==
    NewPod(user_pod_name(user) \o "-" \o ToString(uid), user.username, uid)

\* create_user_pod: the Pod built for the user, as the API server stores it
create_user_pod(user, uid) == NewPod(user_pod_name(user), user.username, uid)

\* workspace_status reporting the pod whenever the pod is found
workspace_status_pod_only(service, pod) ==
    IF IsSome(pod) THEN "status" ELSE "not_found"

\* workspace_status: match (service, pod)
workspace_status(service, pod) ==
    IF IsSome(service) /\ IsSome(pod) THEN "status" ELSE "not_found"

\* mutant: service_delete, then pod_delete, then Ok
user_pod_shutdown_service_first(pc) ==
    CASE pc = "pod_get" -> "svc_delete"
      [] pc = "svc_delete" -> "pod_delete"
      [] pc = "pod_delete" -> "done"

\* user_pod_shutdown: pod_delete, then service_delete, then Ok
user_pod_shutdown(pc) ==
    CASE pc = "pod_get" -> "pod_delete"
      [] pc = "pod_delete" -> "svc_delete"
      [] pc = "svc_delete" -> "done"

\* run_query, Query::PodStop: shut down only when the pod is found
pod_stop(found) ==
    IF IsSome(found) THEN user_pod_shutdown("pod_get") ELSE "done"

\* the response of a finished request is delivered with the next step of
\* anything; the caller remembers only that its PodStart met AlreadyExists
Delivered(r) ==
    IF r.pc # "done" THEN r
    ELSE IF r.kind = "PodStart" /\ r.err = "conflict"
    THEN [NoReq EXCEPT !.kind = r.kind, !.user = r.user, !.err = r.err]
    ELSE NoReq

Forget(rq) == [t \in Callers |-> Delivered(rq[t])]

Logged(r, op, obj, res) ==
    [r EXCEPT !.log = Append(@, [op |-> op, obj |-> obj, res |-> res])]

Ok(r, phase) == [r EXCEPT !.pc = "done", !.res = "ok", !.phase = phase]
Err(r, err) == [r EXCEPT !.pc = "done", !.res = "error", !.err = err]

\* the assembly of WorkspaceStatus at the end of ensure_user_pod and
\* workspace_status: fetch the node when the pod has a nodeName
WithPod(r, pod) ==
    IF IsSome(pod.node)
    THEN [r EXCEPT !.pod = Some(pod), !.pc = "node_get"]
    ELSE Ok([r EXCEPT !.pod = Some(pod)], WorkspacePhase_from_pod(pod))

\* what a step of caller s does to the other requests' bookkeeping
Others(s, r2, username, mutated) ==
    [t \in Callers |->
        IF t = s THEN r2
        ELSE IF InFlight(reqs[t]) /\ Username(reqs[t]) = username
        THEN [reqs[t] EXCEPT
                !.clean = @ /\ ~mutated,
                !.sinceStop = @ /\ r2.kind # "PodStart"]
        ELSE Delivered(reqs[t])]

\* a step of request s: its record becomes r2, the cluster becomes c2
Step(s, r2, c2) ==
    LET u == Username(reqs[s]) IN
    /\ reqs' = Others(s, r2, u, c2 # cluster)
    /\ cluster' = c2
    /\ stopped' = [stopped EXCEPT ![u] =
            IF r2.kind = "PodStart" THEN FALSE
            ELSE IF r2.kind = "PodStop" /\ r2.pc = "done" /\ r2.res = "ok" THEN TRUE
            ELSE @]
    /\ nextUid' = IF c2.pods \subseteq cluster.pods THEN nextUid ELSE nextUid + 1
    /\ UNCHANGED <<config, nreq, now, sw, gauges, vin, vout, proc>>

\* the HTTP layer receives a request of caller s; run_query runs up to its
\* first cluster call
Receive(s, kind, username, ssh_key) ==
    /\ ~InFlight(reqs[s])
    /\ LET verified == verify_user(config.users, username, ssh_key)
           old == reqs[s]
           r1 == [NoReq EXCEPT
                    !.kind = kind,
                    !.user = verified.user,
                    !.pc = first_call(kind, verified),
                    !.start = IF verified.ok
                              THEN Triplet(cluster, Unwrap(verified.user)) ELSE {},
                    !.retry = /\ verified.ok
                              /\ kind = "PodStart"
                              /\ old.kind = "PodStart"
                              /\ old.err = "conflict"
                              /\ old.user = verified.user,
                    !.sinceStop = verified.ok /\ stopped[username]]
           r2 == IF r1.pc = "done" THEN Err(r1, "auth") ELSE r1
       IN /\ reqs' = IF r1.pc = "done" THEN [Forget(reqs) EXCEPT ![s] = r2]
                     ELSE Others(s, r2, username, FALSE)
          /\ stopped' = IF r1.pc # "done" /\ kind = "PodStart"
                        THEN [stopped EXCEPT ![username] = FALSE] ELSE stopped
    /\ nreq' = nreq + 1
    /\ UNCHANGED <<config, cluster, nextUid, now, sw, gauges, vin, vout, proc>>

\* Client::volume_claim_opt returns to ensure_user_home_volume
VolumeClaimOpt(s, api) ==
    LET r == reqs[s]
        found == volume_claim_opt(cluster, user_home_volume_name(Unwrap(r.user)))
        next == ensure_user_home_volume(found)
    IN /\ r.pc = "vol_get"
       /\ IF ~propagate(api)
          THEN Step(s, Err(Logged(r, "get", "pvc", api), "transient"), cluster)
          ELSE Step(s, [Logged(r, "get", "pvc", IF IsSome(found) THEN "found" ELSE "absent")
                           EXCEPT !.pc = IF next = "return" THEN AfterVolume(r.stage)
                                         ELSE next],
                    cluster)

\* Client::volume_claim_create returns to create_user_home_volume
VolumeClaimCreate(s, api) ==
    LET r == reqs[s]
        call == volume_claim_create(cluster, user_home_volume_name(Unwrap(r.user)))
        res == IF api = "ok" THEN call.res ELSE api
    IN /\ r.pc = "vol_create"
       /\ IF ~propagate(res)
          THEN Step(s, Err(Logged(r, "create", "pvc", res),
                           IF res = "conflict" THEN res ELSE "transient"),
                    IF api = "ok" THEN call.cluster ELSE cluster)
          ELSE Step(s, [Logged(r, "create", "pvc", res) EXCEPT !.pc = AfterVolume(r.stage)],
                    call.cluster)

\* Client::service_opt returns to ensure_user_service or workspace_status
ServiceOpt(s, api) ==
    LET r == reqs[s]
        found == service_opt(cluster, user_service_name(Unwrap(r.user)))
        r1 == [Logged(r, "get", "svc", IF IsSome(found) THEN "found" ELSE "absent")
                  EXCEPT !.service = found]
    IN /\ r.pc = "svc_get"
       /\ IF ~propagate(api)
          THEN Step(s, Err(Logged(r, "get", "svc", api), "transient"), cluster)
          ELSE IF r.kind = "PodStart"
          THEN Step(s, [r1 EXCEPT !.pc = ensure_user_service(found)], cluster)
          ELSE Step(s, [r1 EXCEPT !.pc = "pod_get"], cluster)

\* Client::service_create returns to create_user_service
ServiceCreate(s, api) ==
    LET r == reqs[s]
        name == user_service_name(Unwrap(r.user))
        call == service_create(cluster, name)
        res == IF api = "ok" THEN call.res ELSE api
    IN /\ r.pc = "svc_create"
       /\ IF ~propagate(res)
          THEN Step(s, Err(Logged(r, "create", "svc", res),
                           IF res = "conflict" THEN res ELSE "transient"),
                    IF api = "ok" THEN call.cluster ELSE cluster)
          ELSE Step(s, [Logged(r, "create", "svc", res)
                           EXCEPT !.service = Some(name), !.pc = "pod_get"],
                    call.cluster)

\* Client::pod_opt returns to ensure_user_pod, workspace_status or run_query
PodOpt(s, api) ==
    LET r == reqs[s]
        found == pod_opt(cluster, user_pod_name(Unwrap(r.user)))
        r1 == Logged(r, "get", "pod", IF IsSome(found) THEN "found" ELSE "absent")
    IN /\ r.pc = "pod_get"
       /\ IF ~propagate(api)
          THEN Step(s, Err(Logged(r, "get", "pod", api), "transient"), cluster)
          ELSE CASE r.kind = "PodStart" ->
                    IF ensure_user_pod(found) = "status"
                    THEN Step(s, WithPod(r1, Unwrap(found)), cluster)
                    ELSE Step(s, [r1 EXCEPT !.stage = 2, !.pc = "vol_get"], cluster)
                 [] r.kind = "PodStatus" ->
                    IF workspace_status(r.service, found) = "status"
                    THEN Step(s, WithPod(r1, Unwrap(found)), cluster)
                    ELSE Step(s, Ok(r1, "NotFound"), cluster)
                 [] r.kind = "PodStop" ->
                    IF pod_stop(found) = "done"
                    THEN Step(s, Ok(r1, ""), cluster)
                    ELSE Step(s, [r1 EXCEPT !.pod = found, !.pc = pod_stop(found)], cluster)

\* Client::pod_create returns to create_user_pod
PodCreate(s, api) ==
    LET r == reqs[s]
        pod == create_user_pod(Unwrap(r.user), nextUid)
        call == pod_create(cluster, pod)
        res == IF api = "ok" THEN call.res ELSE api
    IN /\ r.pc = "pod_create"
       /\ nextUid <= MaxUid
       /\ IF ~propagate(res)
          THEN Step(s, Err(Logged(r, "create", "pod", res),
                           IF res = "conflict" THEN res ELSE "transient"),
                    IF api = "ok" THEN call.cluster ELSE cluster)
          ELSE Step(s, WithPod(Logged(r, "create", "pod", res), pod), call.cluster)

\* Client::node returns to ensure_user_pod or workspace_status
Node(s, api) ==
    LET r == reqs[s] IN
    /\ r.pc = "node_get"
    /\ IF ~propagate(api)
       THEN Step(s, Err(Logged(r, "get", "node", api), "transient"), cluster)
       ELSE Step(s, Ok([Logged(r, "get", "node", "found") EXCEPT !.node = Unwrap(r.pod).node],
                       WorkspacePhase_from_pod(Unwrap(r.pod))),
                 cluster)

\* Client::pod_delete returns to user_pod_shutdown
PodDelete(s, api) ==
    LET r == reqs[s]
        call == pod_delete(cluster, user_pod_name(Unwrap(r.user)))
        res == IF api = "ok" THEN call.res ELSE api
        next == user_pod_shutdown(r.pc)
    IN /\ r.pc = "pod_delete"
       /\ IF ~propagate(res)
          THEN Step(s, Err(Logged(r, "delete", "pod", res),
                           IF res = "notfound" THEN res ELSE "transient"),
                    cluster)
          ELSE IF next = "done"
          THEN Step(s, Ok(Logged(r, "delete", "pod", res), ""), call.cluster)
          ELSE Step(s, [Logged(r, "delete", "pod", res) EXCEPT !.pc = next], call.cluster)

\* Client::service_delete returns to user_pod_shutdown
ServiceDelete(s, api) ==
    LET r == reqs[s]
        call == service_delete(cluster, user_service_name(Unwrap(r.user)))
        res == IF api = "ok" THEN call.res ELSE api
        next == user_pod_shutdown(r.pc)
    IN /\ r.pc = "svc_delete"
       /\ IF ~propagate(res)
          THEN Step(s, Err(Logged(r, "delete", "svc", res),
                           IF res = "notfound" THEN res ELSE "transient"),
                    cluster)
          ELSE IF next = "done"
          THEN Step(s, Ok(Logged(r, "delete", "svc", res), ""), call.cluster)
          ELSE Step(s, [Logged(r, "delete", "svc", res) EXCEPT !.pc = next], call.cluster)

-----------------------------------------------------------------------------
(* Quantities and pod metrics, src/src/client.rs *)

Digits == {"0", "1", "2", "3", "4", "5", "6", "7", "8", "9"}

DigitValue(ch) ==
    CASE ch = "0" -> 0 [] ch = "1" -> 1 [] ch = "2" -> 2 [] ch = "3" -> 3
      [] ch = "4" -> 4 [] ch = "5" -> 5 [] ch = "6" -> 6 [] ch = "7" -> 7
      [] ch = "8" -> 8 [] ch = "9" -> 9

\* number_end_index: the first character (already accepted) and the digits
\* that follow it
RECURSIVE number_end_index(_, _)
number_end_index(q, i) ==
    IF i < Len(q) /\ q[i + 1] \in Digits THEN number_end_index(q, i + 1) ELSE i

\* An i64 result is [neg, mag]: mag is the magnitude in decimal digits, most
\* significant first and without leading zeros, so the values beyond the
\* integers of the model checker (i64 results up to 2^63, and the f64
\* products beyond them) are represented exactly.
RECURSIVE NatDigits(_)
NatDigits(n) == IF n < 10 THEN <<n>> ELSE NatDigits(n \div 10) \o <<n % 10>>

\* the magnitude a run of digits stands for: leading zeros do not count
Magnitude(ds) ==
    LET nonzero == {i \in 1..Len(ds) : ds[i] # "0"}
        first == CHOOSE i \in nonzero : \A j \in nonzero : i <= j
        values == [i \in 1..Len(ds) |-> DigitValue(ds[i])]
    IN IF nonzero = {} THEN <<0>> ELSE SubSeq(values, first, Len(ds))

\* the digits ds times a small factor plus a carry, the right half before
\* the left: [carry, digits], as many digits as ds has and the carry out
\* of them
TimesPlus[ds \in Seq(0..9), k \in Nat, carry \in Nat] ==
    IF Len(ds) = 1
    THEN LET v == k * ds[1] + carry
         IN [carry |-> v \div 10, digits |-> <<v % 10>>]
    ELSE LET half == Len(ds) \div 2
             right == TimesPlus[SubSeq(ds, half + 1, Len(ds)), k, carry]
             left == TimesPlus[SubSeq(ds, 1, half), k, right.carry]
         IN [carry |-> left.carry, digits |-> left.digits \o right.digits]

\* the magnitude of digits and the carry out of them
Carried(t) == (IF t.carry = 0 THEN <<>> ELSE NatDigits(t.carry)) \o t.digits

\* a magnitude times a small factor
Times(ds, k) == Carried(TimesPlus[ds, k, 0])

\* a magnitude times 2^e, 2^10 at a time
RECURSIVE TimesPow2(_, _)
TimesPow2(ds, e) ==
    IF e = 0 \/ ds = <<0>> THEN ds
    ELSE IF e >= 10 THEN TimesPow2(Times(ds, 1024), e - 10)
    ELSE TimesPow2(Times(ds, 2), e - 1)

TimesPow10(ds, e) == IF ds = <<0>> THEN ds ELSE ds \o [i \in 1..e |-> 0]

\* a < b for magnitudes
MagLess(a, b) ==
    \/ Len(a) < Len(b)
    \/ /\ Len(a) = Len(b)
       /\ \E i \in 1..Len(a) : a[i] < b[i] /\ \A j \in 1..(i - 1) : a[j] = b[j]

\* the magnitude of i64::MAX = 2^63 - 1; that of i64::MIN = -2^63 ends in 8
I64MaxMag == <<9, 2, 2, 3, 3, 7, 2, 0, 3, 6, 8, 5, 4, 7, 7, 5, 8, 0, 7>>

I64Zero == [neg |-> FALSE, mag |-> <<0>>]

\* str::parse::<i64> of an optionally signed run of digits: a lone sign and
\* a number beyond the range of an i64 fail
ParseI64(t) ==
    LET signed == Head(t) \in {"+", "-"}
        neg == Head(t) = "-"
        ds == IF signed THEN Tail(t) ELSE t
        mag == Magnitude(ds)
        limit == IF neg THEN [I64MaxMag EXCEPT ![19] = 8] ELSE I64MaxMag
    IN IF ds = <<>> \/ MagLess(limit, mag) THEN [ok |-> FALSE, value |-> I64Zero]
       ELSE [ok |-> TRUE,
             value |-> IF mag = <<0>> THEN I64Zero ELSE [neg |-> neg, mag |-> mag]]

\* the sum of two runs of digits of one length and a carry, the right half
\* before the left: [carry, digits]
AddPlus[x \in Seq(0..9), y \in Seq(0..9), carry \in Nat] ==
    IF Len(x) = 1
    THEN LET v == x[1] + y[1] + carry
         IN [carry |-> v \div 10, digits |-> <<v % 10>>]
    ELSE LET half == Len(x) \div 2
             right == AddPlus[SubSeq(x, half + 1, Len(x)), SubSeq(y, half + 1, Len(y)),
                              carry]
             left == AddPlus[SubSeq(x, 1, half), SubSeq(y, 1, half), right.carry]
         IN [carry |-> left.carry, digits |-> left.digits \o right.digits]

\* the sum of two magnitudes
Add(x, y) ==
    LET n == IF Len(x) > Len(y) THEN Len(x) ELSE Len(y)
        padded(z) == [i \in 1..(n - Len(z)) |-> 0] \o z
    IN Carried(AddPlus[padded(x), padded(y), 0])

\* the digits ds after the remainder rem, divided by a small number, the
\* left half before the right: [quot, rem]
DivFrom[ds \in Seq(0..9), d \in Nat, rem \in Nat] ==
    IF Len(ds) = 1
    THEN LET v == 10 * rem + ds[1]
         IN [quot |-> <<v \div d>>, rem |-> v % d]
    ELSE LET half == Len(ds) \div 2
             left == DivFrom[SubSeq(ds, 1, half), d, rem]
             right == DivFrom[SubSeq(ds, half + 1, Len(ds)), d, left.rem]
         IN [quot |-> left.quot \o right.quot, rem |-> right.rem]

\* a magnitude divided by a small number: [quot, rem]
DivMod(ds, d) ==
    LET all == DivFrom[ds, d, 0]
        nonzero == {i \in 1..Len(ds) : all.quot[i] # 0}
        first == CHOOSE i \in nonzero : \A j \in nonzero : i <= j
    IN [quot |-> IF nonzero = {} THEN <<0>> ELSE SubSeq(all.quot, first, Len(ds)),
        rem |-> all.rem]

\* 2^53: the integers up to it are f64 values
Two53 == <<9, 0, 0, 7, 1, 9, 9, 2, 5, 4, 7, 4, 0, 9, 9, 2>>

\* an f64 has 53 significant bits: a magnitude is rounded to the nearest
\* one that 53 bits hold, a tie to the even one.  x is the magnitude
\* without its last k bits (dropped ten at a time while x is 2^63 or more,
\* then one at a time), round the last bit dropped, sticky whether a bit
\* dropped before it was set.
RECURSIVE RoundF64From(_, _, _, _)
RoundF64From(x, k, round, sticky) ==
    IF MagLess(x, Two53)
    THEN LET up == round = 1 /\ (sticky \/ x[Len(x)] % 2 = 1)
             kept == IF up THEN Add(x, <<1>>) ELSE x
         IN TimesPow2(kept, k)
    ELSE IF MagLess(I64MaxMag, x)
    THEN LET h == DivMod(x, 1024)
         IN RoundF64From(h.quot, k + 10, IF h.rem >= 512 THEN 1 ELSE 0,
                         sticky \/ round = 1 \/ h.rem % 512 # 0)
    ELSE LET h == DivMod(x, 2)
         IN RoundF64From(h.quot, k + 1, h.rem, sticky \/ round = 1)

\* mutant: integers of any size are kept as they are
RoundF64_exact(mag) == mag

\* the f64 nearest to a magnitude (`as f64`, and the rounding of a product)
RoundF64(mag) == RoundF64From(mag, 0, 0, FALSE)

\* an i64 result as an integer of the model (for the quantities whose value
\* lies within the integers of the model checker)
AsInt(v) ==
    LET value[k \in 0..Len(v.mag)] == IF k = 0 THEN 0 ELSE 10 * value[k - 1] + v.mag[k]
    IN IF v.neg THEN -value[Len(v.mag)] ELSE value[Len(v.mag)]

\* the multiplier table with Ki as 2^20
Multiplier_Ki_as_Mi(suffix) ==
    CASE suffix = <<"m">> -> Some([base |-> 10, exp |-> -3])
      [] suffix = <<>> -> Some([base |-> 10, exp |-> 0])
      [] suffix = <<"k">> -> Some([base |-> 10, exp |-> 3])
      [] suffix = <<"K", "i">> -> Some([base |-> 2, exp |-> 20])
      [] suffix = <<"M">> -> Some([base |-> 10, exp |-> 6])
      [] suffix = <<"M", "i">> -> Some([base |-> 2, exp |-> 20])
      [] suffix = <<"G">> -> Some([base |-> 10, exp |-> 9])
      [] suffix = <<"G", "i">> -> Some([base |-> 2, exp |-> 30])
      [] suffix = <<"T">> -> Some([base |-> 10, exp |-> 12])
      [] suffix = <<"T", "i">> -> Some([base |-> 2, exp |-> 40])
      [] suffix = <<"P">> -> Some([base |-> 10, exp |-> 15])
      [] suffix = <<"P", "i">> -> Some([base |-> 2, exp |-> 50])
      [] suffix = <<"E">> -> Some([base |-> 10, exp |-> 18])
      [] suffix = <<"E", "i">> -> Some([base |-> 2, exp |-> 60])
      [] OTHER -> None

\* the multiplier of a suffix as base^exp (0.001 = 10^-3, 1_024 = 2^10,
\* 2.0f64.powi(20) = 2^20, ...), None for an unknown suffix
Multiplier(suffix) ==
    CASE suffix = <<"m">> -> Some([base |-> 10, exp |-> -3])
      [] suffix = <<>> -> Some([base |-> 10, exp |-> 0])
      [] suffix = <<"k">> -> Some([base |-> 10, exp |-> 3])
      [] suffix = <<"K", "i">> -> Some([base |-> 2, exp |-> 10])
      [] suffix = <<"M">> -> Some([base |-> 10, exp |-> 6])
      [] suffix = <<"M", "i">> -> Some([base |-> 2, exp |-> 20])
      [] suffix = <<"G">> -> Some([base |-> 10, exp |-> 9])
      [] suffix = <<"G", "i">> -> Some([base |-> 2, exp |-> 30])
      [] suffix = <<"T">> -> Some([base |-> 10, exp |-> 12])
      [] suffix = <<"T", "i">> -> Some([base |-> 2, exp |-> 40])
      [] suffix = <<"P">> -> Some([base |-> 10, exp |-> 15])
      [] suffix = <<"P", "i">> -> Some([base |-> 2, exp |-> 50])
      [] suffix = <<"E">> -> Some([base |-> 10, exp |-> 18])
      [] suffix = <<"E", "i">> -> Some([base |-> 2, exp |-> 60])
      [] OTHER -> None

\* the product of an f64 integer a and a multiplier before it is rounded.
\* The powers of ten and of two of the table are f64 values; 0.001 is not,
\* the f64 of that name is 4611686018427388 / 2^62, and the product by it
\* is given in units of 2^-62 (4611686018427388 = 46116860 x 10^8 +
\* 18427388).
Product(a, mul) ==
    IF mul.exp < 0
    THEN Add(TimesPow10(Times(a, 46116860), 8), Times(a, 18427388))
    ELSE IF mul.base = 10 THEN TimesPow10(a, mul.exp)
    ELSE TimesPow2(a, mul.exp)

\* f64::ceil of a product given in units of 2^-scale.  h is the product
\* divided so far, [quot, rem], by 2^20 at a time (2^62 = 2^20 x 2^20 x
\* 2^20 x 4), fraction whether a remainder was left before.  A positive
\* fraction is rounded up, a negative one up to zero.
RECURSIVE Ceil(_, _, _, _)
Ceil(h, scale, fraction, neg) ==
    IF scale > 20
    THEN Ceil(DivMod(h.quot, 1048576), scale - 20, fraction \/ h.rem # 0, neg)
    ELSE IF scale > 0
    THEN Ceil(DivMod(h.quot, 2 ^ scale), 0, fraction \/ h.rem # 0, neg)
    ELSE LET up == (fraction \/ h.rem # 0) /\ ~neg
             mag == IF up THEN Add(h.quot, <<1>>) ELSE h.quot
         IN IF mag = <<0>> THEN I64Zero ELSE [neg |-> neg, mag |-> mag]

\* (number as f64 * mul).ceil(): the number is rounded to an f64 and so is
\* the product.
CeilTimes(number, mul) ==
    Ceil([quot |-> RoundF64(Product(RoundF64(number.mag), mul)), rem |-> 0],
         IF mul.exp < 0 THEN 62 ELSE 0, FALSE, number.neg)

\* `as i64` of an f64: saturates at i64::MIN and i64::MAX
as_i64(v) ==
    IF v.neg THEN (IF MagLess(I64MaxMag, v.mag)
                   THEN [v EXCEPT !.mag = [I64MaxMag EXCEPT ![19] = 8]] ELSE v)
    ELSE (IF MagLess(I64MaxMag, v.mag) THEN [v EXCEPT !.mag = I64MaxMag] ELSE v)

\* parse_quantity
parse_quantity(q) ==
    IF q = <<>> THEN [ok |-> FALSE, value |-> I64Zero]
    ELSE IF Head(q) \notin Digits \cup {"+", "-"} THEN [ok |-> FALSE, value |-> I64Zero]
    ELSE LET n == number_end_index(q, 1)
             number == ParseI64(SubSeq(q, 1, n))
             mul == Multiplier(SubSeq(q, n + 1, Len(q)))
         IN IF ~number.ok \/ mul = None THEN [ok |-> FALSE, value |-> I64Zero]
            ELSE [ok |-> TRUE,
                  value |-> as_i64(CeilTimes(number.value, Unwrap(mul)))]

\* mutant: the usage of the first container stands for the pod
pod_metrics_total_cpu_first(containers) ==
    IF containers = <<>> THEN [ok |-> TRUE, value |-> 0]
    ELSE LET x == parse_quantity(Head(containers))
         IN IF ~x.ok THEN [ok |-> FALSE, value |-> 0]
            ELSE [ok |-> TRUE, value |-> AsInt(x.value)]

\* pod_metrics_total_cpu: try_fold over the containers' usage.cpu
RECURSIVE pod_metrics_total_cpu(_)
pod_metrics_total_cpu(containers) ==
    IF containers = <<>> THEN [ok |-> TRUE, value |-> 0]
    ELSE LET rest == pod_metrics_total_cpu(SubSeq(containers, 1, Len(containers) - 1))
             x == parse_quantity(containers[Len(containers)])
         IN IF ~rest.ok \/ ~x.ok THEN [ok |-> FALSE, value |-> 0]
            ELSE [ok |-> TRUE, value |-> AsInt(x.value) + rest.value]

-----------------------------------------------------------------------------
(* Idle annotations and the shutdown decision, src/src/operator/mod.rs *)

\* std::time::Duration::from_secs(60 * 5), in the model's time unit (minutes)
StaleLimit == 5

DefaultAnnotation ==
    [last_idle_check |-> None, cpu_idle_since |-> None, network_idle_since |-> None]

\* PodMetricsAnnotion::from_pod(pod).unwrap_or_default()
PodMetricsAnnotion_from_pod(pod) ==
    IF IsSome(pod.annot) THEN Unwrap(pod.annot) ELSE DefaultAnnotation

\* autoshutdown_enabled looking at the dimensions only, not at enable
autoshutdown_enabled_any(cfg) ==
    IsSome(cfg.auto_shutdown.tcp_idle) \/ IsSome(cfg.auto_shutdown.cpu_usage)

\* Config::autoshutdown_enabled
autoshutdown_enabled(cfg) ==
    cfg.auto_shutdown.enable
    /\ (IsSome(cfg.auto_shutdown.tcp_idle) \/ IsSome(cfg.auto_shutdown.cpu_usage))

\* metrics.find(|m| m.metadata.name == pod.metadata.name)
RECURSIVE find_metrics(_, _)
find_metrics(metrics, name) ==
    IF metrics = <<>> THEN None
    ELSE IF Head(metrics).name = name THEN Some(Head(metrics))
    ELSE find_metrics(Tail(metrics), name)

\* analyze_pod_autoshutdown taking a metrics entry that cannot be parsed as
\* "not idle" (unwrap_or in place of `?`)
analyze_before_exec_lenient(pod, metrics_opt, cfg, t) ==
    LET old == PodMetricsAnnotion_from_pod(pod)
        last == old.last_idle_check
        negative == IsSome(last) /\ t - Unwrap(last) < 0
        stale == IsSome(last) /\ t - Unwrap(last) > StaleLimit
        annotations == IF stale
                       THEN [old EXCEPT !.cpu_idle_since = None,
                                        !.network_idle_since = None]
                       ELSE old
        zipped == IsSome(cfg.cpu_usage) /\ IsSome(metrics_opt)
        total == IF zipped THEN pod_metrics_total_cpu(Unwrap(metrics_opt).containers)
                 ELSE [ok |-> TRUE, value |-> 0]
    IN IF negative
       THEN [ok |-> FALSE, annotations |-> annotations, cpu_is_idle |-> FALSE]
       ELSE [ok |-> TRUE, annotations |-> annotations,
             cpu_is_idle |-> zipped /\ total.ok
                             /\ total.value > Unwrap(cfg.cpu_usage).cpu_threshold]

\* analyze_pod_autoshutdown up to the exec: [ok, annotations, cpu_is_idle].
\* chrono's to_std fails on a negative duration and `?` returns the error.
analyze_before_exec(pod, metrics_opt, cfg, t) ==
    LET old == PodMetricsAnnotion_from_pod(pod)
        last == old.last_idle_check
        negative == IsSome(last) /\ t - Unwrap(last) < 0
        stale == IsSome(last) /\ t - Unwrap(last) > StaleLimit
        annotations == IF stale
                       THEN [old EXCEPT !.cpu_idle_since = None,
                                        !.network_idle_since = None]
                       ELSE old
        zipped == IsSome(cfg.cpu_usage) /\ IsSome(metrics_opt)
        total == IF zipped THEN pod_metrics_total_cpu(Unwrap(metrics_opt).containers)
                 ELSE [ok |-> TRUE, value |-> 0]
    IN IF negative \/ ~total.ok
       THEN [ok |-> FALSE, annotations |-> annotations, cpu_is_idle |-> FALSE]
       ELSE [ok |-> TRUE, annotations |-> annotations,
             cpu_is_idle |-> zipped /\ total.value > Unwrap(cfg.cpu_usage).cpu_threshold]

\* analyze_pod_autoshutdown forgetting since when the network was idle:
\* an idle dimension is idle since this tick
analyze_after_exec_restart(pre, active_connections, t) ==
    [last_idle_check |-> Some(t),
     cpu_idle_since |-> IF pre.cpu_is_idle THEN Some(t) ELSE None,
     network_idle_since |-> IF active_connections = 0 THEN Some(t) ELSE None]

\* analyze_pod_autoshutdown carrying last_idle_check over from the old
\* annotation
analyze_after_exec_last(pre, active_connections, t) ==
    [last_idle_check |-> pre.annotations.last_idle_check,
     cpu_idle_since |->
        IF pre.cpu_is_idle
        THEN (IF IsSome(pre.annotations.cpu_idle_since)
              THEN pre.annotations.cpu_idle_since ELSE Some(t))
        ELSE None,
     network_idle_since |->
        IF active_connections = 0
        THEN (IF IsSome(pre.annotations.network_idle_since)
              THEN pre.annotations.network_idle_since ELSE Some(t))
        ELSE None]

\* analyze_pod_autoshutdown leaving the idle_since of a busy dimension as it
\* was
analyze_after_exec_keep(pre, active_connections, t) ==
    [last_idle_check |-> Some(t),
     cpu_idle_since |->
        IF pre.cpu_is_idle /\ pre.annotations.cpu_idle_since = None
        THEN Some(t) ELSE pre.annotations.cpu_idle_since,
     network_idle_since |->
        IF active_connections = 0 /\ pre.annotations.network_idle_since = None
        THEN Some(t) ELSE pre.annotations.network_idle_since]

\* analyze_pod_autoshutdown after the exec: the new annotation
analyze_after_exec(pre, active_connections, t) ==
    [last_idle_check |-> Some(t),
     cpu_idle_since |->
        IF pre.cpu_is_idle
        THEN (IF IsSome(pre.annotations.cpu_idle_since)
              THEN pre.annotations.cpu_idle_since ELSE Some(t))
        ELSE None,
     network_idle_since |->
        IF active_connections = 0
        THEN (IF IsSome(pre.annotations.network_idle_since)
              THEN pre.annotations.network_idle_since ELSE Some(t))
        ELSE None]

\* should_shutdown with the comparison turned round: a dimension counts as
\* exceeded while its idle time is below minimum_idle_time
should_shutdown_below(annot, cfg, t) ==
    LET net == IsSome(cfg.tcp_idle) /\ IsSome(annot.network_idle_since)
        netd == IF net THEN t - Unwrap(annot.network_idle_since) ELSE 0
        cpu == IsSome(cfg.cpu_usage) /\ IsSome(annot.cpu_idle_since)
        cpud == IF cpu THEN t - Unwrap(annot.cpu_idle_since) ELSE 0
    IN IF net /\ netd < 0 THEN [panic |-> TRUE, value |-> FALSE]
       ELSE IF net /\ ~(netd < Unwrap(cfg.tcp_idle).minimum_idle_time)
       THEN [panic |-> FALSE, value |-> FALSE]
       ELSE IF cpu /\ cpud < 0 THEN [panic |-> TRUE, value |-> FALSE]
       ELSE IF cpu /\ ~(cpud < Unwrap(cfg.cpu_usage).minimum_idle_time)
       THEN [panic |-> FALSE, value |-> FALSE]
       ELSE [panic |-> FALSE, value |-> net \/ cpu]

\* PodMetricsAnnotion::should_shutdown: [panic, value]; to_std().unwrap()
\* panics on a negative duration
should_shutdown(annot, cfg, t) ==
    LET net == IsSome(cfg.tcp_idle) /\ IsSome(annot.network_idle_since)
        netd == IF net THEN t - Unwrap(annot.network_idle_since) ELSE 0
        cpu == IsSome(cfg.cpu_usage) /\ IsSome(annot.cpu_idle_since)
        cpud == IF cpu THEN t - Unwrap(annot.cpu_idle_since) ELSE 0
    IN IF net /\ netd < 0 THEN [panic |-> TRUE, value |-> FALSE]
       ELSE IF net /\ ~(netd > Unwrap(cfg.tcp_idle).minimum_idle_time)
       THEN [panic |-> FALSE, value |-> FALSE]
       ELSE IF cpu /\ cpud < 0 THEN [panic |-> TRUE, value |-> FALSE]
       ELSE IF cpu /\ ~(cpud > Unwrap(cfg.cpu_usage).minimum_idle_time)
       THEN [panic |-> FALSE, value |-> FALSE]
       ELSE [panic |-> FALSE, value |-> net \/ cpu]

-----------------------------------------------------------------------------
(* The sweeper: run_loop, run_checks, check_pods, process_pod_autoshutdown *)
(* of src/src/operator/mod.rs.  sw.pc is the cluster call the task is      *)
(* suspended on ("idle": on interval.tick()); within "exec", the call of   *)
(* Client::pod_exec_stdout, sw.wait is the await of it the task is at.     *)

NoPre == [ok |-> FALSE, annotations |-> DefaultAnnotation, cpu_is_idle |-> FALSE]

\* the locals of the sweeper task; exec_failed (the pods of this tick whose
\* exec returned an error) is kept only for stating properties
SwIdle ==
    [pc |-> "idle", pods |-> <<>>, metrics |-> <<>>, i |-> 0, pre |-> NoPre,
     t0 |-> 0, wait |-> "exec", active_connections |-> 0,
     annot |-> DefaultAnnotation, available |-> 0, unavailable |-> 0, err |-> "", exec_failed |-> {}]

\* run_checks returned an error: run_loop logs it and waits for the next tick
SwFailed == [SwIdle EXCEPT !.err = "pod check failed"]

\* the listing order of the API server: by name (the names the configured
\* users give, in lexicographic order), whatever the order of creation
RECURSIVE Listing(_)
Listing(ps) ==
    IF ps = {} THEN <<>>
    ELSE LET names == <<"workspace-alice", "workspace-bob">>
             rank(p) == CHOOSE i \in 1..Len(names) : names[i] = p.name
             first == CHOOSE p \in ps : \A o \in ps :
                          \/ rank(p) < rank(o)
                          \/ rank(p) = rank(o) /\ p.uid <= o.uid
         IN <<first>> \o Listing(ps \ {first})

\* the phase counters of check_pods for one pod
Counted(st, pod) ==
    LET phase == WorkspacePhase_from_pod(pod) IN
    [st EXCEPT !.available = IF phase = "Ready" THEN @ + 1 ELSE @,
               !.unavailable = IF phase = "Starting" THEN @ + 1 ELSE @]

\* check_pods with process_pod_autoshutdown(..).await? in the loop: the
\* first pod whose analysis fails ends the loop
RECURSIVE check_pods_from_abort(_, _, _, _)
check_pods_from_abort(st, i, cfg, t) ==
    IF i > Len(st.pods) THEN [st EXCEPT !.pc = "end"]
    ELSE LET pod == st.pods[i]
             st1 == Counted(st, pod)
             pre == analyze_before_exec(pod, find_metrics(st.metrics, pod.name),
                                        cfg.auto_shutdown, t)
         IN IF ~autoshutdown_enabled(cfg) THEN check_pods_from_abort(st1, i + 1, cfg, t)
            ELSE IF ~pre.ok THEN [st1 EXCEPT !.pc = "end"]
            ELSE [st1 EXCEPT !.pc = "exec", !.i = i, !.pre = pre, !.t0 = t]

\* check_pods' loop from pod i, run until the task suspends on the exec of a
\* pod ("exec") or the loop is over ("end").  A pod whose analysis fails
\* before the exec is logged and skipped.
RECURSIVE check_pods_from(_, _, _, _)
check_pods_from(st, i, cfg, t) ==
    IF i > Len(st.pods) THEN [st EXCEPT !.pc = "end"]
    ELSE LET pod == st.pods[i]
             st1 == Counted(st, pod)
             pre == analyze_before_exec(pod, find_metrics(st.metrics, pod.name),
                                        cfg.auto_shutdown, t)
         IN IF ~autoshutdown_enabled(cfg) THEN check_pods_from(st1, i + 1, cfg, t)
            ELSE IF ~pre.ok THEN check_pods_from(st1, i + 1, cfg, t)
            ELSE [st1 EXCEPT !.pc = "exec", !.i = i, !.pre = pre, !.t0 = t]

\* run_checks after check_pods returned Ok
after_check_pods(cfg) ==
    IF cfg.auto_register_operator_service_monitor
    THEN [SwIdle EXCEPT !.pc = "sm_get"] ELSE SwIdle

\* mutant: the counts of the tick are added to the gauges (inc for set)
SweepOn_accumulate(st) ==
    IF st.pc = "end"
    THEN /\ gauges' = [available |-> gauges.available + st.available,
                       unavailable |-> gauges.unavailable + st.unavailable]
         /\ sw' = after_check_pods(config)
    ELSE /\ gauges' = gauges
         /\ sw' = st

\* the sweeper goes on with local state st
SweepOn(st) ==
    IF st.pc = "end"
    THEN /\ gauges' = [available |-> st.available, unavailable |-> st.unavailable]
         /\ sw' = after_check_pods(config)
    ELSE /\ gauges' = gauges
         /\ sw' = st

\* a change of the pods named `name` by the sweeper or the cluster, as the
\* requests in flight for that user see it
Disturbed(name) ==
    [t \in Callers |->
        IF InFlight(reqs[t]) /\ user_pod_name(Unwrap(reqs[t].user)) = name
        THEN [reqs[t] EXCEPT !.clean = FALSE] ELSE Delivered(reqs[t])]

\* mutant: every firing of the interval starts run_checks anew, whether or
\* not the previous run has returned
SweepEnsureNamespace_overlap(api) ==
    /\ sw.pc # "panicked"
    /\ IF ~propagate(api)
       THEN sw' = SwFailed /\ cluster' = cluster
       ELSE IF sw.pc = "ns_create"
       THEN /\ cluster' = [cluster EXCEPT !.namespace = TRUE]
            /\ sw' = [SwIdle EXCEPT !.pc = "list_pods"]
       ELSE IF cluster.namespace
       THEN sw' = [SwIdle EXCEPT !.pc = "list_pods"] /\ cluster' = cluster
       ELSE IF config.auto_create_namespace
       THEN sw' = [SwIdle EXCEPT !.pc = "ns_create"] /\ cluster' = cluster
       ELSE sw' = SwFailed /\ cluster' = cluster
    /\ reqs' = Forget(reqs)
    /\ UNCHANGED <<config, nreq, nextUid, now, gauges, stopped, vin, vout, proc>>

\* interval.tick() fires and ensure_namespace runs: namespace_opt, then
\* namespace_create when the namespace is absent and auto-creation is on
SweepEnsureNamespace(api) ==
    /\ sw.pc \in {"idle", "ns_create"}
    /\ IF ~propagate(api)
       THEN sw' = SwFailed /\ cluster' = cluster
       ELSE IF sw.pc = "ns_create"
       THEN /\ cluster' = [cluster EXCEPT !.namespace = TRUE]
            /\ sw' = [SwIdle EXCEPT !.pc = "list_pods"]
       ELSE IF cluster.namespace
       THEN sw' = [SwIdle EXCEPT !.pc = "list_pods"] /\ cluster' = cluster
       ELSE IF config.auto_create_namespace
       THEN sw' = [SwIdle EXCEPT !.pc = "ns_create"] /\ cluster' = cluster
       ELSE sw' = SwFailed /\ cluster' = cluster
    /\ reqs' = Forget(reqs)
    /\ UNCHANGED <<config, nreq, nextUid, now, gauges, stopped, vin, vout, proc>>

\* Client::pods_all returns to check_pods
SweepPodsAll(api) ==
    /\ sw.pc = "list_pods"
    /\ sw' = IF ~propagate(api) THEN SwFailed
             ELSE [sw EXCEPT !.pc = "list_metrics", !.pods = Listing(cluster.pods)]
    /\ reqs' = Forget(reqs)
    /\ UNCHANGED <<config, cluster, nreq, nextUid, now, gauges, stopped, vin, vout, proc>>

\* the metrics the metrics server reports for the listed pods: one container
\* per pod with usage.cpu q
MetricsOf(pods, q) ==
    [k \in 1..Len(pods) |-> [name |-> pods[k].name, containers |-> <<q>>]]

\* pod_metrics_list_all(..).await? in place of the unwrap_or_else: the
\* error of the metrics listing is returned
metrics_or_error(api, listed) ==
    IF api = "ok" THEN [ok |-> TRUE, value |-> listed] ELSE [ok |-> FALSE, value |-> <<>>]

\* pod_metrics_list_all(..).await.unwrap_or_else(|error| Vec::new())
metrics_unwrap_or_else(api, listed) ==
    IF api = "ok" THEN [ok |-> TRUE, value |-> listed] ELSE [ok |-> TRUE, value |-> <<>>]

\* Client::pod_metrics_list_all returns to check_pods (an error becomes the
\* empty list); the loop over the pods starts
SweepPodMetricsListAll(api, q) ==
    /\ sw.pc = "list_metrics"
    /\ LET metrics == metrics_unwrap_or_else(api, MetricsOf(sw.pods, q))
       IN IF ~metrics.ok THEN sw' = SwFailed /\ gauges' = gauges
          ELSE SweepOn(check_pods_from([sw EXCEPT !.metrics = metrics.value], 1,
                                       config, now))
    /\ reqs' = Forget(reqs)
    /\ UNCHANGED <<config, cluster, nreq, nextUid, now, stopped, vin, vout, proc>>

\* a process can be started in a pod whose containers run
CanExec(name) == \E p \in PodsNamed(cluster, name) : p.phase = Some("Running")

\* how an await of pod_exec_stdout ends: well, or with an error (the exec
\* call failed, the output could not be read, the process did not
\* terminate), or stdout was not attached, or the process did not end with
\* status Success
ExecOutcomes == {"ok", "error", "no_stdout", "not_success"}

\* mutant: pod_active_tcp_connections(..).await.unwrap_or(0), a failed exec
\* counts as no connection
SweepPodExec_unwrap_or(api, active_connections) ==
    /\ sw.pc = "exec"
    /\ api \in CASE sw.wait = "exec" -> {"ok", "error", "no_stdout"}
                 [] sw.wait = "read" -> {"ok", "error"}
                 [] sw.wait = "join" -> {"ok", "error", "not_success"}
    /\ LET failed == ~propagate(api)
                         \/ (sw.wait = "exec" /\ ~CanExec(sw.pods[sw.i].name))
           connections == IF failed THEN 0 ELSE sw.active_connections
           annotations == analyze_after_exec(sw.pre, connections, sw.t0)
           decision == should_shutdown(annotations, config.auto_shutdown, now)
       IN /\ gauges' = gauges
          /\ sw' = IF ~failed /\ sw.wait = "exec" THEN [sw EXCEPT !.wait = "read"]
                   ELSE IF ~failed /\ sw.wait = "read"
                   THEN [sw EXCEPT !.wait = "join",
                                   !.active_connections = active_connections]
                   ELSE [sw EXCEPT !.wait = "exec",
                                   !.active_connections = connections,
                                   !.annot = annotations,
                                   !.exec_failed = IF failed THEN @ \cup {sw.i} ELSE @,
                                   !.pc = IF decision.panic THEN "panicked"
                                          ELSE IF decision.value THEN "delete"
                                          ELSE "patch"]
    /\ reqs' = Forget(reqs)
    /\ UNCHANGED <<config, cluster, nreq, nextUid, now, stopped, vin, vout, proc>>

\* Client::pod_exec_stdout, called by pod_active_tcp_connections, one step
\* for each of its awaits: the exec call returns (sw.wait = "exec": the
\* process was started, or the call failed, or stdout is not attached), the
\* output has been read to its end ("read": active_connections is the
\* number of its lines), the process has been joined ("join": its status is
\* Success, or another, or none).  Only the exec call needs the pod to run.
\* An error at any of them is logged by check_pods, which takes the next
\* pod; after the join analyze_pod_autoshutdown ends and
\* process_pod_autoshutdown decides.
SweepPodExec(api, active_connections) ==
    /\ sw.pc = "exec"
    /\ api \in CASE sw.wait = "exec" -> {"ok", "error", "no_stdout"}
                 [] sw.wait = "read" -> {"ok", "error"}
                 [] sw.wait = "join" -> {"ok", "error", "not_success"}
    /\ LET annotations == analyze_after_exec(sw.pre, sw.active_connections, sw.t0)
           decision == should_shutdown(annotations, config.auto_shutdown, now)
       IN IF ~propagate(api) \/ (sw.wait = "exec" /\ ~CanExec(sw.pods[sw.i].name))
          THEN SweepOn(check_pods_from([sw EXCEPT !.wait = "exec",
                                                  !.exec_failed = @ \cup {sw.i}],
                                       sw.i + 1, config, now))
          ELSE /\ gauges' = gauges
               /\ sw' = IF sw.wait = "exec" THEN [sw EXCEPT !.wait = "read"]
                        ELSE IF sw.wait = "read"
                        THEN [sw EXCEPT !.wait = "join",
                                        !.active_connections = active_connections]
                        ELSE [sw EXCEPT !.wait = "exec",
                                        !.annot = annotations,
                                        !.pc = IF decision.panic THEN "panicked"
                                               ELSE IF decision.value THEN "delete"
                                               ELSE "patch"]
    /\ reqs' = Forget(reqs)
    /\ UNCHANGED <<config, cluster, nreq, nextUid, now, stopped, vin, vout, proc>>

\* Client::pod_delete returns to process_pod_autoshutdown
SweepPodDelete(api) ==
    /\ sw.pc = "delete"
    /\ LET name == sw.pods[sw.i].name
           call == pod_delete(cluster, name)
       IN /\ cluster' = IF api = "ok" THEN call.cluster ELSE cluster
          /\ reqs' = IF api = "ok" /\ call.res = "ok" THEN Disturbed(name) ELSE Forget(reqs)
    /\ SweepOn(check_pods_from(sw, sw.i + 1, config, now))
    /\ UNCHANGED <<config, nreq, nextUid, now, stopped, vin, vout, proc>>

\* Client::pod_patch returns to process_pod_autoshutdown
SweepPodPatch(api) ==
    /\ sw.pc = "patch"
    /\ LET call == pod_patch(cluster, sw.pods[sw.i].name, sw.annot)
       IN cluster' = IF api = "ok" THEN call.cluster ELSE cluster
    /\ SweepOn(check_pods_from(sw, sw.i + 1, config, now))
    /\ reqs' = Forget(reqs)
    /\ UNCHANGED <<config, nreq, nextUid, now, stopped, vin, vout, proc>>

\* ensure_prometheus_operator_service_monitor: the ServiceMonitor is looked
\* up ("sm_get"), then the CRD ("crd_get"), then the monitor is created
SweepServiceMonitor(api, found) ==
    /\ sw.pc \in {"sm_get", "crd_get", "sm_create"}
    /\ IF ~propagate(api) THEN sw' = SwFailed /\ cluster' = cluster
       ELSE CASE sw.pc = "sm_get" ->
                 /\ sw' = IF cluster.monitor THEN SwIdle ELSE [sw EXCEPT !.pc = "crd_get"]
                 /\ cluster' = cluster
              [] sw.pc = "crd_get" ->
                 /\ sw' = IF found THEN [sw EXCEPT !.pc = "sm_create"] ELSE SwIdle
                 /\ cluster' = cluster
              [] sw.pc = "sm_create" ->
                 /\ sw' = SwIdle
                 /\ cluster' = [cluster EXCEPT !.monitor = TRUE]
    /\ reqs' = Forget(reqs)
    /\ UNCHANGED <<config, nreq, nextUid, now, gauges, stopped, vin, vout, proc>>

-----------------------------------------------------------------------------
(* The rest of the cluster: scheduler, kubelet and the clock *)

\* the scheduler binds a pending pod to a node
PodScheduled(p) ==
    /\ p \in cluster.pods /\ ~p.deleting /\ p.node = None
    /\ cluster' = [cluster EXCEPT !.pods = (@ \ {p}) \cup {[p EXCEPT !.node = Some("node1")]}]
    /\ reqs' = Forget(reqs)
    /\ UNCHANGED <<config, nreq, nextUid, now, sw, gauges, stopped, vin, vout, proc>>

\* the kubelet starts the containers of a scheduled pod and they get ready
PodStarted(p) ==
    /\ p \in cluster.pods /\ ~p.deleting /\ IsSome(p.node) /\ p.phase = Some("Pending")
    /\ cluster' = [cluster EXCEPT !.pods =
            (@ \ {p}) \cup {[p EXCEPT !.phase = Some("Running"), !.ready = TRUE]}]
    /\ reqs' = Forget(reqs)
    /\ UNCHANGED <<config, nreq, nextUid, now, sw, gauges, stopped, vin, vout, proc>>

\* the kubelet has stopped a deleted pod: the API server removes it
PodFinalized(p) ==
    /\ p \in cluster.pods /\ p.deleting
    /\ cluster' = [cluster EXCEPT !.pods = @ \ {p}]
    /\ reqs' = Disturbed(p.name)
    /\ UNCHANGED <<config, nreq, nextUid, now, sw, gauges, stopped, vin, vout, proc>>

ClockTick ==
    /\ now < MaxClock
    /\ now' = now + 1
    /\ reqs' = Forget(reqs)
    /\ UNCHANGED <<config, cluster, nreq, nextUid, sw, gauges, stopped, vin, vout, proc>>

-----------------------------------------------------------------------------
(* The operator after Operator::launch: the namespace exists and is empty  *)

\* main after Operator::launch returned Ok and the server is bound: the
\* sweeper task is spawned, requests are served
Launched ==
    [pc |-> "serving", exit |-> None, sweeper |-> TRUE, server |-> TRUE,
     found |-> None, err |-> ""]

\* the whitelist of the configuration
ConfigUsers ==
    << [username |-> "alice", ssh_public_key |-> <<"k", "a", "\n">>] >>

SpecConfig ==
    [users |-> ConfigUsers,
     auto_create_namespace |-> TRUE,
     auto_register_operator_service_monitor |-> TRUE,
     auto_shutdown |-> [enable |-> TRUE, cpu_usage |-> None,
                        tcp_idle |-> Some([minimum_idle_time |-> 1])]]

\* what callers present
Usernames == {"alice", "mallory"}
Keys == { <<"k", "a">>, <<" ", "k", "b">> }

ApiOutcomes == {"ok", "error"}
\* what the lookup of the ServiceMonitor CRD finds: the cluster has no
\* prometheus-operator installed
CrdInstalled == {FALSE}
CpuQuantities == { <<"5", "m">> }

Init ==
    /\ config = SpecConfig
    /\ cluster = [namespace |-> TRUE, pvcs |-> {}, svcs |-> {}, pods |-> {},
                  monitor |-> FALSE]
    /\ reqs = [s \in Callers |-> NoReq]
    /\ nreq = 0
    /\ nextUid = 1
    /\ now = 0
    /\ sw = SwIdle
    /\ gauges = [available |-> 0, unavailable |-> 0]
    /\ stopped = [u \in Usernames |-> FALSE]
    /\ vin = [users |-> ConfigUsers, username |-> "", ssh_key |-> <<>>]
    /\ vout = None
    /\ proc = Launched

\* the requests of a bounded run
Request(s, kind, username, ssh_key) ==
    nreq < MaxReqs /\ Receive(s, kind, username, ssh_key)

SweepRequest(s, kind, username, ssh_key) ==
    nreq < MaxSweepReqs /\ Receive(s, kind, username, ssh_key)

\* the API requests, one cluster call at a time
Calls ==
    \/ \E s \in Callers, api \in ApiOutcomes : VolumeClaimOpt(s, api)
    \/ \E s \in Callers, api \in ApiOutcomes : VolumeClaimCreate(s, api)
    \/ \E s \in Callers, api \in ApiOutcomes : ServiceOpt(s, api)
    \/ \E s \in Callers, api \in ApiOutcomes : ServiceCreate(s, api)
    \/ \E s \in Callers, api \in ApiOutcomes : PodOpt(s, api)
    \/ \E s \in Callers, api \in ApiOutcomes : PodCreate(s, api)
    \/ \E s \in Callers, api \in ApiOutcomes : Node(s, api)
    \/ \E s \in Callers, api \in ApiOutcomes : PodDelete(s, api)
    \/ \E s \in Callers, api \in ApiOutcomes : ServiceDelete(s, api)

\* scheduler and kubelet
Kubelet ==
    \/ \E p \in cluster.pods : PodScheduled(p)
    \/ \E p \in cluster.pods : PodStarted(p)
    \/ \E p \in cluster.pods : PodFinalized(p)

\* the sweeper task
Sweeper ==
    \/ \E api \in ApiOutcomes : SweepEnsureNamespace(api)
    \/ \E api \in ApiOutcomes : SweepPodsAll(api)
    \/ \E api \in ApiOutcomes, q \in CpuQuantities : SweepPodMetricsListAll(api, q)
    \/ \E api \in ApiOutcomes, n \in {0, 1} : SweepPodExec(api, n)
    \/ \E api \in ApiOutcomes : SweepPodDelete(api)
    \/ \E api \in ApiOutcomes : SweepPodPatch(api)
    \/ \E api \in ApiOutcomes, found \in CrdInstalled : SweepServiceMonitor(api, found)

\* concurrent API requests against the cluster
Next ==
    \/ \E s \in Callers, kind \in Kinds, u \in Usernames, k \in Keys : Request(s, kind, u, k)
    \/ Calls
    \/ Kubelet

Spec == Init /\ [][Next]_vars

\* API requests, the sweeper and the clock together
SweepNext ==
    \/ \E s \in Callers, kind \in Kinds, u \in Usernames, k \in Keys :
            SweepRequest(s, kind, u, k)
    \/ Calls
    \/ Kubelet
    \/ Sweeper
    \/ ClockTick

SweepSpec == Init /\ [][SweepNext]_vars

-----------------------------------------------------------------------------
(* Config::verify_user on its own: any whitelist the configuration file can *)
(* hold (ConfigSource.users is a Vec<User> taken as it is, no entry is      *)
(* rejected), any presented username and key.                               *)

VerifyNames == {"alice", "bob"}
VerifyKeys == { <<"k", "a">>, <<" ", "k", "a", "\n">>, <<"k", " ", "a">>, <<"k", "b">>, <<>> }
PresentedNames == {"alice", "bob", "Alice", "alice "}

VerifyUsers == [username : VerifyNames, ssh_public_key : VerifyKeys]

\* the whitelists of at most MaxUsers entries
Whitelists == UNION {[1..n -> VerifyUsers] : n \in 0..MaxUsers}

VerifyInit ==
    /\ config = SpecConfig
    /\ cluster = [namespace |-> TRUE, pvcs |-> {}, svcs |-> {}, pods |-> {},
                  monitor |-> FALSE]
    /\ reqs = [s \in Callers |-> NoReq]
    /\ nreq = 0
    /\ nextUid = 1
    /\ now = 0
    /\ sw = SwIdle
    /\ gauges = [available |-> 0, unavailable |-> 0]
    /\ stopped = [u \in Usernames |-> FALSE]
    /\ vin \in [users : Whitelists, username : PresentedNames, ssh_key : VerifyKeys]
    /\ vout = None
    /\ proc = Launched

\* config.verify_user(username, ssh_key) is called
Verify ==
    /\ vout = None
    /\ vout' = Some(verify_user(vin.users, vin.username, vin.ssh_key))
    /\ UNCHANGED <<config, cluster, reqs, nreq, nextUid, now, sw, gauges, stopped, vin, proc>>

VerifyNext == Verify

VerifySpec == VerifyInit /\ [][VerifyNext]_vars

-----------------------------------------------------------------------------
(* PodMetricsAnnotion::should_shutdown on its own: any annotation a pod can *)
(* carry, any auto-shutdown configuration, any reading of the clock.        *)

\* timestamps, in minutes
ShutdownTimes == 0..3
\* minimum_idle_time of a configured dimension
IdleTimes == {0, 1}

OptionalTimes == {None} \cup {Some(t) : t \in ShutdownTimes}

\* the annotations PodMetricsAnnotion::from_pod can return
ShutdownAnnotations ==
    [last_idle_check : {None, Some(0)},
     cpu_idle_since : OptionalTimes,
     network_idle_since : OptionalTimes]

\* config::AutoShutdown with each dimension configured or not
AutoShutdowns ==
    [enable : {TRUE},
     cpu_usage : {None} \cup {Some([cpu_threshold |-> 1, minimum_idle_time |-> m]) :
                                m \in IdleTimes},
     tcp_idle : {None} \cup {Some([minimum_idle_time |-> m]) : m \in IdleTimes}]

ShutdownInit ==
    /\ config = SpecConfig
    /\ cluster = [namespace |-> TRUE, pvcs |-> {}, svcs |-> {}, pods |-> {},
                  monitor |-> FALSE]
    /\ reqs = [s \in Callers |-> NoReq]
    /\ nreq = 0
    /\ nextUid = 1
    /\ now = 0
    /\ sw = SwIdle
    /\ gauges = [available |-> 0, unavailable |-> 0]
    /\ stopped = [u \in Usernames |-> FALSE]
    /\ vin \in [annot : ShutdownAnnotations, cfg : AutoShutdowns, now : ShutdownTimes]
    /\ vout = None
    /\ proc = Launched

\* annotations.should_shutdown(cfg) is called when the clock reads vin.now
ShouldShutdown ==
    /\ vout = None
    /\ vout' = Some(should_shutdown(vin.annot, vin.cfg, vin.now))
    /\ UNCHANGED <<config, cluster, reqs, nreq, nextUid, now, sw, gauges, stopped, vin, proc>>

ShutdownNext == ShouldShutdown

ShutdownSpec == ShutdownInit /\ [][ShutdownNext]_vars

-----------------------------------------------------------------------------
(* The sweeper over workspaces that are already running: the operator was   *)
(* restarted, the pods of alice and bob carry the annotations of earlier    *)
(* ticks.  Timestamps are minutes relative to the start of the operator.    *)

\* {name: "workspace", usage: {cpu}} as the metrics server reports it
TickCpuQuantities == { <<"2">>, <<"5", "n">> }

TickUsers ==
    << [username |-> "alice", ssh_public_key |-> <<"k", "a", "\n">>],
       [username |-> "bob", ssh_public_key |-> <<"k", "b">>] >>

\* auto-shutdown on TCP idleness alone, on TCP idleness and CPU usage,
\* switched off with a dimension configured, and on with no dimension
TickAutoShutdowns ==
    { [enable |-> TRUE, cpu_usage |-> None,
       tcp_idle |-> Some([minimum_idle_time |-> 1])],
      [enable |-> TRUE, cpu_usage |-> Some([cpu_threshold |-> 1, minimum_idle_time |-> 1]),
       tcp_idle |-> Some([minimum_idle_time |-> 1])],
      [enable |-> FALSE, cpu_usage |-> None,
       tcp_idle |-> Some([minimum_idle_time |-> 1])],
      [enable |-> TRUE, cpu_usage |-> None, tcp_idle |-> None] }

\* no ServiceMonitor is registered
TickConfigs ==
    { [SpecConfig EXCEPT !.users = TickUsers,
                         !.auto_register_operator_service_monitor = FALSE,
                         !.auto_shutdown = a] : a \in TickAutoShutdowns }

\* the annotation of alice's pod: last checked long ago, exactly StaleLimit
\* ago or never; idle since a while, or not idle
AliceAnnotations ==
    [last_idle_check : {None, Some(0 - StaleLimit - 1), Some(0 - StaleLimit)},
     cpu_idle_since : {None, Some(-2)},
     network_idle_since : {None, Some(-2)}]

\* bob's pod was never checked
BobAnnotations == {NoAnnotation}

\* a workspace pod whose container runs and is ready
RunningPod(user, uid, annot) ==
    [NewPod(user_pod_name(user), user.username, uid) EXCEPT
        !.phase = Some("Running"), !.ready = TRUE, !.node = Some("node1"),
        !.annot = annot]

TickInit ==
    /\ config \in TickConfigs
    /\ \E a \in AliceAnnotations, b \in BobAnnotations :
          cluster = [namespace |-> TRUE,
                     pvcs |-> {user_home_volume_name(TickUsers[k]) : k \in 1..2},
                     svcs |-> {user_service_name(TickUsers[k]) : k \in 1..2},
                     pods |-> {RunningPod(TickUsers[1], 1, Some(a)),
                               RunningPod(TickUsers[2], 2, b)},
                     monitor |-> FALSE]
    /\ reqs = [s \in Callers |-> NoReq]
    /\ nreq = 0
    /\ nextUid = 3
    /\ now = 0
    /\ sw = SwIdle
    /\ gauges = [available |-> 0, unavailable |-> 0]
    /\ stopped = [u \in Usernames |-> FALSE]
    /\ vin = [users |-> TickUsers, username |-> "", ssh_key |-> <<>>]
    /\ vout = None
    /\ proc = Launched

\* the sweeper with the metrics server reporting any of TickCpuQuantities
TickSweeper ==
    \/ \E api \in ApiOutcomes : SweepEnsureNamespace(api)
    \/ \E api \in ApiOutcomes : SweepPodsAll(api)
    \/ \E api \in ApiOutcomes, q \in TickCpuQuantities : SweepPodMetricsListAll(api, q)
    \/ \E api \in ExecOutcomes, n \in {0, 1} : SweepPodExec(api, n)
    \/ \E api \in ApiOutcomes : SweepPodDelete(api)
    \/ \E api \in ApiOutcomes : SweepPodPatch(api)

TickNext ==
    \/ TickSweeper
    \/ \E p \in cluster.pods : PodFinalized(p)
    \/ ClockTick

TickSpec == TickInit /\ [][TickNext]_vars

-----------------------------------------------------------------------------
(* Startup: main of src/src/main.rs and Operator::launch.  proc.pc is the  *)
(* step main is at; the sweeper task and the HTTP server run once they are *)
(* spawned and bound.                                                      *)

\* the process at the start of main
Boot ==
    [pc |-> "load_config", exit |-> None, sweeper |-> FALSE, server |-> FALSE,
     found |-> None, err |-> ""]

\* ensure_namespace creating the namespace whatever auto_create_namespace is
ensure_namespace_create(found, auto_create) ==
    IF found THEN "ready" ELSE "create"

\* ensure_namespace after namespace_opt returned: what it does next
ensure_namespace(found, auto_create) ==
    IF found THEN "ready"
    ELSE IF auto_create THEN "create"
    ELSE "Bootstrap failed"

\* Operator::launch returned Err: block_on returns it, main logs "operator
\* failed" and returns
LaunchFailed(p) == [p EXCEPT !.pc = "exited", !.exit = Some(0), !.err = "operator failed"]

\* ensure_namespace returned Ok: launch spawns run_loop and returns the
\* operator, main goes on to run_server
Spawned(p) == [p EXCEPT !.pc = "bind", !.sweeper = TRUE]

\* ConfigSource::load_from_env returns to main
LoadConfig(ok) ==
    /\ proc.pc = "load_config"
    /\ proc' = IF ok THEN [proc EXCEPT !.pc = "connect"]
               ELSE [proc EXCEPT !.pc = "exited", !.exit = Some(1),
                                 !.err = "Could not load config"]
    /\ UNCHANGED <<config, cluster, reqs, nreq, nextUid, now, sw, gauges, stopped, vin, vout>>

\* Client::connect returns to launch
Connect(api) ==
    /\ proc.pc = "connect"
    /\ proc' = IF propagate(api) THEN [proc EXCEPT !.pc = "ns_get"] ELSE LaunchFailed(proc)
    /\ UNCHANGED <<config, cluster, reqs, nreq, nextUid, now, sw, gauges, stopped, vin, vout>>

\* Client::namespace_opt returns to the ensure_namespace of launch
LaunchNamespaceOpt(api) ==
    /\ proc.pc = "ns_get"
    /\ LET next == ensure_namespace(cluster.namespace, config.auto_create_namespace)
           p == [proc EXCEPT !.found = Some(cluster.namespace)]
       IN proc' = IF ~propagate(api) THEN LaunchFailed(proc)
                  ELSE IF next = "ready" THEN Spawned(p)
                  ELSE IF next = "create" THEN [p EXCEPT !.pc = "ns_create"]
                  ELSE LaunchFailed(p)
    /\ UNCHANGED <<config, cluster, reqs, nreq, nextUid, now, sw, gauges, stopped, vin, vout>>

\* Client::namespace_create returns to the ensure_namespace of launch
LaunchNamespaceCreate(api) ==
    /\ proc.pc = "ns_create"
    /\ IF propagate(api) /\ ~cluster.namespace
       THEN /\ cluster' = [cluster EXCEPT !.namespace = TRUE]
            /\ proc' = Spawned(proc)
       ELSE /\ cluster' = cluster
            /\ proc' = LaunchFailed(proc)
    /\ UNCHANGED <<config, reqs, nreq, nextUid, now, sw, gauges, stopped, vin, vout>>

\* run_server: axum::Server::bind(..).serve(..); a failure to bind panics on
\* the main thread and the process ends with the status of a panic
Bind(ok) ==
    /\ proc.pc = "bind"
    /\ proc' = IF ok THEN [proc EXCEPT !.pc = "serving", !.server = TRUE]
               ELSE [proc EXCEPT !.pc = "exited", !.exit = Some(101), !.err = "panic"]
    /\ UNCHANGED <<config, cluster, reqs, nreq, nextUid, now, sw, gauges, stopped, vin, vout>>

\* the sweeper task runs once it is spawned, while the process lives
LaunchSweeper == proc.sweeper /\ proc.exit = None /\ Sweeper

\* the server takes requests once it is bound, while the process lives
LaunchRequest(s, kind, username, ssh_key) ==
    /\ proc.server /\ proc.exit = None
    /\ nreq < MaxLaunchReqs
    /\ Receive(s, kind, username, ssh_key)

LaunchCalls == proc.exit = None /\ Calls

\* the configuration file asks for the creation of the namespace or not
LaunchConfigs == {[SpecConfig EXCEPT !.auto_create_namespace = b] : b \in BOOLEAN}

LaunchInit ==
    /\ config \in LaunchConfigs
    /\ \E present \in BOOLEAN :
          cluster = [namespace |-> present, pvcs |-> {}, svcs |-> {}, pods |-> {},
                     monitor |-> FALSE]
    /\ reqs = [s \in Callers |-> NoReq]
    /\ nreq = 0
    /\ nextUid = 1
    /\ now = 0
    /\ sw = SwIdle
    /\ gauges = [available |-> 0, unavailable |-> 0]
    /\ stopped = [u \in Usernames |-> FALSE]
    /\ vin = [users |-> ConfigUsers, username |-> "", ssh_key |-> <<>>]
    /\ vout = None
    /\ proc = Boot

LaunchNext ==
    \/ \E ok \in BOOLEAN : LoadConfig(ok)
    \/ \E api \in ApiOutcomes : Connect(api)
    \/ \E api \in ApiOutcomes : LaunchNamespaceOpt(api)
    \/ \E api \in ApiOutcomes : LaunchNamespaceCreate(api)
    \/ \E ok \in BOOLEAN : Bind(ok)
    \/ LaunchSweeper
    \/ \E s \in Callers, kind \in Kinds, u \in Usernames, k \in Keys :
            LaunchRequest(s, kind, u, k)
    \/ LaunchCalls
    \/ \E p \in cluster.pods : PodScheduled(p)
    \/ \E p \in cluster.pods : PodStarted(p)

LaunchSpec == LaunchInit /\ [][LaunchNext]_vars

-----------------------------------------------------------------------------
(* WorkspacePhase::from_pod on its own: any pod the API server can return.  *)

\* status.phase: absent, the five phases of Kubernetes, another string
PodPhases ==
    {None, Some("Pending"), Some("Running"), Some("Succeeded"), Some("Failed"),
     Some("Unknown"), Some("Evicted")}

\* status.container_statuses: absent, or the ready flags of up to two
\* containers
ContainerStatuses ==
    {None} \cup {Some(cs) : cs \in UNION {[1..n -> BOOLEAN] : n \in 0..2}}

PhaseInit ==
    /\ config = SpecConfig
    /\ cluster = [namespace |-> TRUE, pvcs |-> {}, svcs |-> {}, pods |-> {},
                  monitor |-> FALSE]
    /\ reqs = [s \in Callers |-> NoReq]
    /\ nreq = 0
    /\ nextUid = 1
    /\ now = 0
    /\ sw = SwIdle
    /\ gauges = [available |-> 0, unavailable |-> 0]
    /\ stopped = [u \in Usernames |-> FALSE]
    /\ vin \in [deleting : BOOLEAN, phase : PodPhases,
                 container_statuses : ContainerStatuses]
    /\ vout = None
    /\ proc = Launched

\* WorkspacePhase::from_pod(pod) is called
FromPod ==
    /\ vout = None
    /\ vout' = Some(WorkspacePhase_from_pod(
                    [deleting |-> vin.deleting, phase |-> vin.phase,
                     ready |-> pod_containers_ready(vin.container_statuses)]))
    /\ UNCHANGED <<config, cluster, reqs, nreq, nextUid, now, sw, gauges, stopped, vin, proc>>

PhaseSpec == PhaseInit /\ [][FromPod]_vars

-----------------------------------------------------------------------------
(* AddressSpec: the ssh_address of a PodStart / PodStatus response,        *)
(* src/src/server/api.rs run_query, src/src/operator/types.rs and          *)
(* src/src/client.rs. A Service is [spec], spec an Option of [ports],      *)
(* ports an Option of a sequence of [node_port]; a Node is [status],       *)
(* status an Option of [addresses], addresses an Option of a sequence of   *)
(* [type_, address].                                                       *)

\* service_get_nodeport: svc.spec?.ports?.first()?.node_port
service_get_nodeport(svc) ==
    IF svc.spec = None THEN None
    ELSE IF Unwrap(svc.spec).ports = None THEN None
    ELSE IF Unwrap(Unwrap(svc.spec).ports) = <<>> THEN None
    ELSE Head(Unwrap(Unwrap(svc.spec).ports)).node_port

\* mutant: the first address of the node, whatever its type
node_ip_first(node) ==
    IF node.status = None \/ Unwrap(node.status).addresses = None THEN None
    ELSE LET addresses == Unwrap(Unwrap(node.status).addresses)
         IN IF addresses = <<>> THEN None ELSE Some(Head(addresses).address)

\* node_ip: the first address of type InternalIP
node_ip(node) ==
    IF node.status = None THEN None
    ELSE IF Unwrap(node.status).addresses = None THEN None
    ELSE LET found == SelectSeq(Unwrap(Unwrap(node.status).addresses),
                                LAMBDA addr : addr.type_ = "InternalIP")
         IN IF found = <<>> THEN None ELSE Some(Head(found).address)

\* WorkspaceStatus::public_address
public_address(status) ==
    IF status.node = None THEN None ELSE node_ip(Unwrap(status.node))

\* WorkspaceStatus::ssh_port
ssh_port(status) ==
    IF status.service = None THEN None
    ELSE service_get_nodeport(Unwrap(status.service))

\* addr.zip(port).map(|(address, port)| SshAddress { address, port })
ssh_address(status) ==
    LET addr == public_address(status)
        port == ssh_port(status)
    IN IF IsSome(addr) /\ IsSome(port)
       THEN Some([address |-> Unwrap(addr), port |-> Unwrap(port)])
       ELSE None

\* the WorkspaceStatus that workspace_status (PodStatus) and ensure_user_pod
\* (PodStart) return for the service and pod they found; node is the Node
\* that Client::node returns for the pod's nodeName
WorkspaceStatus_of(kind, service, pod, node) ==
    IF kind = "PodStart" \/ workspace_status(service, pod) = "status"
    THEN [phase |-> WorkspacePhase_from_pod(Unwrap(pod)),
          service |-> service, pod |-> pod,
          node |-> IF IsSome(Unwrap(pod).node) THEN Some(node) ELSE None]
    ELSE [phase |-> "NotFound", service |-> service, pod |-> None, node |-> None]

Services ==
    {[spec |-> None], [spec |-> Some([ports |-> None])]}
        \cup {[spec |-> Some([ports |-> Some(ps)])] : ps \in
                {<<>>,
                 <<[node_port |-> None]>>,
                 <<[node_port |-> Some(31234)]>>,
                 <<[node_port |-> None], [node_port |-> Some(31234)]>>,
                 <<[node_port |-> Some(31234)], [node_port |-> Some(31235)]>>}}

Nodes ==
    {[status |-> None], [status |-> Some([addresses |-> None])]}
        \cup {[status |-> Some([addresses |-> Some(as)])] : as \in
                {<<>>,
                 <<[type_ |-> "Hostname", address |-> "node1"]>>,
                 <<[type_ |-> "InternalIP", address |-> "10.0.0.7"]>>,
                 <<[type_ |-> "Hostname", address |-> "node1"],
                   [type_ |-> "InternalIP", address |-> "10.0.0.7"]>>,
                 <<[type_ |-> "ExternalIP", address |-> "1.2.3.4"],
                   [type_ |-> "InternalIP", address |-> "10.0.0.7"],
                   [type_ |-> "InternalIP", address |-> "10.0.0.8"]>>}}

\* the user's pod as the get returns it (new, scheduled and starting,
\* running and ready, or being deleted); ensure_user_pod returns Ok only
\* with the service and the pod in hand
AddressInputs ==
    LET new == NewPod("workspace-alice", "alice", 1)
        pods == {new,
                 [new EXCEPT !.node = Some("node1")],
                 [new EXCEPT !.node = Some("node1"), !.phase = Some("Running"),
                             !.ready = TRUE],
                 [new EXCEPT !.node = Some("node1"), !.phase = Some("Running"),
                             !.ready = TRUE, !.deleting = TRUE]}
    IN {i \in [kind : {"PodStart", "PodStatus"},
               service : {None} \cup {Some(svc) : svc \in Services},
               pod : {None} \cup {Some(pod) : pod \in pods},
               node : Nodes] :
           i.kind = "PodStart" => IsSome(i.service) /\ IsSome(i.pod)}

AddressInit ==
    /\ config = SpecConfig
    /\ cluster = [namespace |-> TRUE, pvcs |-> {}, svcs |-> {}, pods |-> {},
                  monitor |-> FALSE]
    /\ reqs = [s \in Callers |-> NoReq]
    /\ nreq = 0
    /\ nextUid = 1
    /\ now = 0
    /\ sw = SwIdle
    /\ gauges = [available |-> 0, unavailable |-> 0]
    /\ stopped = [u \in Usernames |-> FALSE]
    /\ vin \in AddressInputs
    /\ vout = None
    /\ proc = Launched

\* run_query builds the response from the status
Respond ==
    /\ vout = None
    /\ LET status == WorkspaceStatus_of(vin.kind, vin.service, vin.pod, vin.node)
       IN vout' = Some([phase |-> status.phase,
                        ssh_address |-> ssh_address(status),
                        info |-> status.pod])
    /\ UNCHANGED <<config, cluster, reqs, nreq, nextUid, now, sw, gauges, stopped, vin, proc>>

AddressSpec == AddressInit /\ [][Respond]_vars

-----------------------------------------------------------------------------
(* QuantitySpec: parse_quantity over quantity strings, src/src/client.rs.  *)
(* The input is kept in its three parts, sign, digits and the rest; the    *)
(* function is applied to their concatenation.                             *)

\* an optional sign, digits, and the rest: a suffix of the match or
\* something else.  The digits are every run of up to MaxDigits digits, and
\* longer numbers up to the ends of the i64 range and one beyond.
QuantityInputs ==
    [sign : {<<>>, <<"+">>, <<"-">>},
     digits : UNION {[1..k -> Digits] : k \in 0..MaxDigits} \cup
              {<<"4", "6", "1", "2", "0", "7", "6", "8", "2", "1">>,
               <<"5", "7", "6", "6", "2", "9", "4", "8", "5", "0", "0", "1">>,
               <<"7", "2", "0", "6", "4", "6", "5", "7", "4", "9", "3", "3", "3", "5">>,
               <<"9", "0", "0", "7", "1", "9", "9", "2", "5", "4", "7", "4", "0", "9", "9", "3">>,
               <<"9", "3", "8", "3", "5", "0", "6", "2", "5", "0", "9", "5", "2", "0", "0", "1">>,
               <<"9", "2", "2", "3", "3", "7", "2", "0", "3", "6", "8", "5", "4", "7", "7", "5", "8", "0", "7">>,
               <<"9", "2", "2", "3", "3", "7", "2", "0", "3", "6", "8", "5", "4", "7", "7", "5", "8", "0", "8">>},
     suffix : {<<>>, <<"m">>, <<"k">>, <<"K", "i">>, <<"M">>, <<"M", "i">>, <<"G">>,
               <<"G", "i">>, <<"T">>, <<"T", "i">>, <<"P">>, <<"P", "i">>, <<"E">>,
               <<"E", "i">>,
               <<"X">>, <<"n">>, <<"K">>, <<"m", "i">>, <<"K", "i", "B">>, <<" ">>,
               <<"-">>, <<"m", "5">>, <<".", "5">>}]

QuantityInit ==
    /\ config = SpecConfig
    /\ cluster = [namespace |-> TRUE, pvcs |-> {}, svcs |-> {}, pods |-> {},
                  monitor |-> FALSE]
    /\ reqs = [s \in Callers |-> NoReq]
    /\ nreq = 0
    /\ nextUid = 1
    /\ now = 0
    /\ sw = SwIdle
    /\ gauges = [available |-> 0, unavailable |-> 0]
    /\ stopped = [u \in Usernames |-> FALSE]
    /\ vin \in QuantityInputs
    /\ vout = None
    /\ proc = Launched

\* parse_quantity(q) is called
ParseQuantity ==
    /\ vout = None
    /\ vout' = Some(parse_quantity(vin.sign \o vin.digits \o vin.suffix))
    /\ UNCHANGED <<config, cluster, reqs, nreq, nextUid, now, sw, gauges, stopped, vin, proc>>

QuantitySpec == QuantityInit /\ [][ParseQuantity]_vars

-----------------------------------------------------------------------------
(* RestartSpec: alice's workspace runs and has been idle, or was never     *)
(* checked; the sweeper shuts it down while alice sends PodStart requests. *)
(* No PodStop is sent: a pod that is being deleted was deleted by the      *)
(* sweeper.                                                                *)

\* alice's pod: idle on the network for two minutes at the check a minute
\* ago, or never checked
RestartInit ==
    /\ config = [SpecConfig EXCEPT !.auto_register_operator_service_monitor = FALSE]
    /\ \E a \in {Some([last_idle_check |-> Some(-1), cpu_idle_since |-> None,
                         network_idle_since |-> Some(-2)]),
                   NoAnnotation} :
          cluster = [namespace |-> TRUE,
                     pvcs |-> {user_home_volume_name(ConfigUsers[1])},
                     svcs |-> {user_service_name(ConfigUsers[1])},
                     pods |-> {RunningPod(ConfigUsers[1], 1, a)},
                     monitor |-> FALSE]
    /\ reqs = [s \in Callers |-> NoReq]
    /\ nreq = 0
    /\ nextUid = 2
    /\ now = 0
    /\ sw = SwIdle
    /\ gauges = [available |-> 0, unavailable |-> 0]
    /\ stopped = [u \in Usernames |-> FALSE]
    /\ vin = [users |-> ConfigUsers, username |-> "", ssh_key |-> <<>>]
    /\ vout = None
    /\ proc = Launched

\* PodStart requests and their calls (the volume claim and the service
\* exist), the sweeper, the kubelet
RestartNext ==
    \/ \E s \in Callers, u \in Usernames, k \in Keys : SweepRequest(s, "PodStart", u, k)
    \/ \E s \in Callers, api \in ApiOutcomes : VolumeClaimOpt(s, api)
    \/ \E s \in Callers, api \in ApiOutcomes : ServiceOpt(s, api)
    \/ \E s \in Callers, api \in ApiOutcomes : PodOpt(s, api)
    \/ \E s \in Callers, api \in ApiOutcomes : PodCreate(s, api)
    \/ \E s \in Callers, api \in ApiOutcomes : Node(s, api)
    \/ TickSweeper
    \/ \E p \in cluster.pods : PodScheduled(p)
    \/ \E p \in cluster.pods : PodStarted(p)
    \/ \E p \in cluster.pods : PodFinalized(p)

RestartSpec == RestartInit /\ [][RestartNext]_vars

-----------------------------------------------------------------------------
(* CpuSpec: cpu_is_idle of analyze_pod_autoshutdown for alice's pod, over   *)
(* the listings of the metrics server and the cpu_usage configurations.     *)

\* cpu_usage absent or with threshold 2 or 3; a listing of up to two
\* PodMetrics, each the name of a pod and the usage.cpu of up to two
\* containers
CpuInputs ==
    LET usages == {<<"1">>, <<"2">>, <<"1", "5", "0", "0", "m">>, <<"5", "n">>}
        entries == [name : {"workspace-alice", "workspace-bob"},
                    containers : UNION {[1..n -> usages] : n \in 0..2}]
    IN [cpu_usage : {None} \cup {Some([cpu_threshold |-> c, minimum_idle_time |-> 1]) :
                                    c \in {2, 3}},
        metrics : UNION {[1..n -> entries] : n \in 0..2}]

CpuInit ==
    /\ config = SpecConfig
    /\ cluster = [namespace |-> TRUE, pvcs |-> {}, svcs |-> {}, pods |-> {},
                  monitor |-> FALSE]
    /\ reqs = [s \in Callers |-> NoReq]
    /\ nreq = 0
    /\ nextUid = 1
    /\ now = 0
    /\ sw = SwIdle
    /\ gauges = [available |-> 0, unavailable |-> 0]
    /\ stopped = [u \in Usernames |-> FALSE]
    /\ vin \in CpuInputs
    /\ vout = None
    /\ proc = Launched

\* check_pods finds the metrics of the pod and analyze_pod_autoshutdown
\* computes cpu_is_idle
CpuIsIdle ==
    /\ vout = None
    /\ LET pod == RunningPod(ConfigUsers[1], 1, NoAnnotation)
           cfg == [enable |-> TRUE, cpu_usage |-> vin.cpu_usage,
                   tcp_idle |-> Some([minimum_idle_time |-> 1])]
       IN vout' = Some(analyze_before_exec(pod, find_metrics(vin.metrics, pod.name),
                                          cfg, now))
    /\ UNCHANGED <<config, cluster, reqs, nreq, nextUid, now, sw, gauges, stopped, vin, proc>>

CpuSpec == CpuInit /\ [][CpuIsIdle]_vars

-----------------------------------------------------------------------------
(* GaugeSpec: the sweeper over workspace pods in any phase: alice's pod    *)
(* with any status.phase, ready or not, deleted or not; bob's pod absent,  *)
(* starting or ready.  Auto-shutdown is on TCP idleness, switched on or    *)
(* off.                                                                    *)

GaugeInit ==
    /\ config \in {c \in TickConfigs : IsSome(c.auto_shutdown.tcp_idle)
                                        /\ c.auto_shutdown.cpu_usage = None}
    /\ \E a \in [phase : {Some("Pending"), Some("Running"), Some("Failed")},
                 ready : BOOLEAN, deleting : BOOLEAN],
          b \in SUBSET {FALSE, TRUE} :
          /\ Cardinality(b) <= 1
          /\ cluster = [namespace |-> TRUE,
                        pvcs |-> {user_home_volume_name(TickUsers[k]) : k \in 1..2},
                        svcs |-> {user_service_name(TickUsers[k]) : k \in 1..2},
                        pods |-> {[RunningPod(TickUsers[1], 1, NoAnnotation) EXCEPT
                                      !.phase = a.phase, !.ready = a.ready,
                                      !.deleting = a.deleting]}
                                 \cup {[RunningPod(TickUsers[2], 2, NoAnnotation) EXCEPT
                                           !.ready = r] : r \in b},
                        monitor |-> FALSE]
    /\ reqs = [s \in Callers |-> NoReq]
    /\ nreq = 0
    /\ nextUid = 3
    /\ now = 0
    /\ sw = SwIdle
    /\ gauges = [available |-> 0, unavailable |-> 0]
    /\ stopped = [u \in Usernames |-> FALSE]
    /\ vin = [users |-> TickUsers, username |-> "", ssh_key |-> <<>>]
    /\ vout = None
    /\ proc = Launched

GaugeSpec == GaugeInit /\ [][TickNext]_vars

-----------------------------------------------------------------------------
(* SkewSpec: the sweeper over a pod whose annotation carries timestamps    *)
(* from a clock that was ahead (written by an operator on another host, or *)
(* before the clock was set back): 3 is later than any reading of the      *)
(* clock in the run.  Auto-shutdown is on, with tcp_idle configured.       *)

SkewInit ==
    /\ config \in {c \in TickConfigs : autoshutdown_enabled(c)
                                        /\ IsSome(c.auto_shutdown.tcp_idle)}
    /\ \E a \in [last_idle_check : {None, Some(-1), Some(MaxClock + 1)},
                 cpu_idle_since : {None, Some(MaxClock + 1)},
                 network_idle_since : {None, Some(-2), Some(MaxClock + 1)}] :
          cluster = [namespace |-> TRUE,
                     pvcs |-> {user_home_volume_name(TickUsers[k]) : k \in 1..2},
                     svcs |-> {user_service_name(TickUsers[k]) : k \in 1..2},
                     pods |-> {RunningPod(TickUsers[1], 1, Some(a)),
                               RunningPod(TickUsers[2], 2, NoAnnotation)},
                     monitor |-> FALSE]
    /\ reqs = [s \in Callers |-> NoReq]
    /\ nreq = 0
    /\ nextUid = 3
    /\ now = 0
    /\ sw = SwIdle
    /\ gauges = [available |-> 0, unavailable |-> 0]
    /\ stopped = [u \in Usernames |-> FALSE]
    /\ vin = [users |-> TickUsers, username |-> "", ssh_key |-> <<>>]
    /\ vout = None
    /\ proc = Launched

SkewSpec == SkewInit /\ [][TickNext]_vars

-----------------------------------------------------------------------------
(* MetricsSpec: the sweeper of TickSpec with a metrics server that reports *)
(* a usage of its own for each pod; the clock stands and deleted pods stay *)
(* Terminating.                                                            *)

\* Client::pod_metrics_list_all returns to check_pods with one entry per
\* listed pod, the k-th with usage.cpu qs[k]
SweepPodMetricsListEach(api, qs) ==
    /\ sw.pc = "list_metrics"
    /\ LET listed == [k \in 1..Len(sw.pods) |->
                        [name |-> sw.pods[k].name, containers |-> <<qs[k]>>]]
           metrics == metrics_unwrap_or_else(api, listed)
       IN SweepOn(check_pods_from([sw EXCEPT !.metrics = metrics.value], 1, config, now))
    /\ reqs' = Forget(reqs)
    /\ UNCHANGED <<config, cluster, nreq, nextUid, now, stopped, vin, vout, proc>>

MetricsNext ==
    \/ \E api \in ApiOutcomes : SweepEnsureNamespace(api)
    \/ \E api \in ApiOutcomes : SweepPodsAll(api)
    \/ \E api \in ApiOutcomes, qs \in [1..2 -> TickCpuQuantities] :
            SweepPodMetricsListEach(api, qs)
    \/ \E api \in ApiOutcomes, n \in {0, 1} : SweepPodExec(api, n)
    \/ \E api \in ApiOutcomes : SweepPodDelete(api)
    \/ \E api \in ApiOutcomes : SweepPodPatch(api)

MetricsSpec == TickInit /\ [][MetricsNext]_vars

-----------------------------------------------------------------------------
(* LiveSpec: the sweeper and an idle workspace.  Auto-shutdown is on TCP   *)
(* idleness alone (minimum_idle_time 1); alice's pod runs and the probe    *)
(* always reports no connection; every other call of a tick to the API     *)
(* server succeeds or fails.  Time is not bounded: the times of the state  *)
(* are kept relative to the present (now stays 0), so a minute that passes *)
(* makes each of them a minute older; a time more than StaleLimit minutes  *)
(* old is kept as StaleLimit + 1 minutes old, which every comparison of    *)
(* the code (against StaleLimit and against minimum_idle_time) tells apart *)
(* from the younger ones all the same.  Fairness: the runtime keeps        *)
(* scheduling the sweeper task, whose interval fires again and again, and  *)
(* time passes.                                                            *)

LiveInit ==
    /\ config = [SpecConfig EXCEPT !.users = TickUsers,
                                   !.auto_register_operator_service_monitor = FALSE]
    /\ \E a \in {NoAnnotation,
                 Some([last_idle_check |-> Some(-1), cpu_idle_since |-> None,
                       network_idle_since |-> None]),
                 Some([last_idle_check |-> Some(-1), cpu_idle_since |-> None,
                       network_idle_since |-> Some(-1)]),
                 Some([last_idle_check |-> Some(0 - StaleLimit - 1), cpu_idle_since |-> None,
                       network_idle_since |-> Some(0 - StaleLimit - 1)])} :
          cluster = [namespace |-> TRUE,
                     pvcs |-> {user_home_volume_name(TickUsers[1])},
                     svcs |-> {user_service_name(TickUsers[1])},
                     pods |-> {RunningPod(TickUsers[1], 1, a)},
                     monitor |-> FALSE]
    /\ reqs = [s \in Callers |-> NoReq]
    /\ nreq = 0
    /\ nextUid = 2
    /\ now = 0
    /\ sw = SwIdle
    /\ gauges = [available |-> 0, unavailable |-> 0]
    /\ stopped = [u \in Usernames |-> FALSE]
    /\ vin = [users |-> TickUsers, username |-> "", ssh_key |-> <<>>]
    /\ vout = None
    /\ proc = Launched

\* the ticks of the sweeper: the probe answers with no connection
LiveSweeper ==
    \/ \E api \in ApiOutcomes : SweepEnsureNamespace(api)
    \/ \E api \in ApiOutcomes : SweepPodsAll(api)
    \/ \E api \in ApiOutcomes, q \in TickCpuQuantities : SweepPodMetricsListAll(api, q)
    \/ SweepPodExec("ok", 0)
    \/ \E api \in ApiOutcomes : SweepPodDelete(api)
    \/ \E api \in ApiOutcomes : SweepPodPatch(api)

\* a minute passes: the next chrono::Utc::now() is a minute later, so every
\* time in the annotations and in the locals of the sweeper is a minute
\* older
LiveClock ==
    LET older(t) == IF t - 1 < 0 - StaleLimit - 1 THEN 0 - StaleLimit - 1 ELSE t - 1
        aged(x) == IF IsSome(x) THEN Some(older(Unwrap(x))) ELSE x
        annotation(a) == [last_idle_check |-> aged(a.last_idle_check),
                          cpu_idle_since |-> aged(a.cpu_idle_since),
                          network_idle_since |-> aged(a.network_idle_since)]
        pod(p) == IF IsSome(p.annot)
                  THEN [p EXCEPT !.annot = Some(annotation(Unwrap(p.annot)))] ELSE p
        listed == [sw EXCEPT !.pods = [k \in DOMAIN sw.pods |-> pod(sw.pods[k])]]
    IN /\ cluster' = [cluster EXCEPT !.pods = {pod(p) : p \in cluster.pods}]
       /\ sw' = IF sw.pc \in {"exec", "delete", "patch"}
                THEN [listed EXCEPT !.t0 = older(sw.t0),
                                    !.annot = annotation(sw.annot),
                                    !.pre.annotations = annotation(sw.pre.annotations)]
                ELSE listed
       /\ reqs' = Forget(reqs)
       /\ UNCHANGED <<config, nreq, nextUid, now, gauges, stopped, vin, vout, proc>>

LiveNext ==
    \/ LiveSweeper
    \/ LiveClock

LiveSpec ==
    LiveInit /\ [][LiveNext]_vars /\ WF_vars(LiveSweeper) /\ WF_vars(LiveClock)

-----------------------------------------------------------------------------
(* Properties *)

PodNames == {p.name : p \in cluster.pods}

\* C1: in every reachable state, a Pod workspace-{u} that exists has its
\* Service workspace-{u}.  Read in the claim's favour: a pod that is being
\* deleted (deletionTimestamp set) does not count as existing.
C1_PodImpliesService ==
    \A p \in cluster.pods : ~p.deleting => IsSome(service_opt(cluster, p.name))

\* C2: in every reachable state, under any interleaving of PodStart, PodStop
\* and sweeper ticks, a Pod or Service workspace-{u} that exists has the
\* PersistentVolumeClaim workspace-{u}.
C2_VolumeUnderPodAndService ==
    \A name \in PodNames \cup cluster.svcs : IsSome(volume_claim_opt(cluster, name))

\* C2 witness: the second pod instance of a user (the sweeper deleted the
\* first, a PodStart created the next) with its service and its claim
C2_Witness ==
    \E p \in cluster.pods :
        /\ p.uid = 2
        /\ IsSome(service_opt(cluster, p.name))
        /\ IsSome(volume_claim_opt(cluster, p.name))

\* C3: no step of a request or of the sweeper deletes a home volume: a
\* PersistentVolumeClaim that exists, exists in the next state
C3_VolumeNeverDeleted == [][cluster.pvcs \subseteq cluster'.pvcs]_vars

\* C3 witness: an auto-shutdown deletion (the only request so far being
\* answered, the pod is being deleted) with the claim still there
C3_Witness ==
    /\ nreq = 1
    /\ \E p \in cluster.pods : p.deleting /\ IsSome(volume_claim_opt(cluster, p.name))

Full == {"pvc", "svc", "pod"}

Finished(r, kind) == r.kind = kind /\ r.pc = "done"

\* the objects a request created, in the order of its create calls
Created(r) == SelectSeq(r.log, LAMBDA e : e.op = "create" /\ e.res = "ok")

\* the last cluster call of a request
LastCall(r) == r.log[Len(r.log)]

\* C4: for every user at most one pod exists and its name is
\* workspace-{username}, also while several PodStart requests of the user run
\* concurrently.
C4_OnePodPerUser ==
    /\ \A p \in cluster.pods : p.name = "workspace-" \o p.user
    /\ \A u \in Usernames : Cardinality({p \in cluster.pods : p.user = u}) <= 1

\* C4 witness: a PodStart lost the race for the pod (its pod_create met
\* AlreadyExists) and the user has the one pod
C4_Witness ==
    \E t \in Callers :
        /\ Finished(reqs[t], "PodStart") /\ reqs[t].err = "conflict"
        /\ reqs[t].log # <<>> /\ LastCall(reqs[t]).obj = "pod"
        /\ Cardinality({p \in cluster.pods : p.user = Username(reqs[t])}) = 1

\* the pod a request returns is a pod of the cluster
ReturnsExistingPod(r) ==
    /\ IsSome(r.pod)
    /\ \E p \in cluster.pods : p.name = Unwrap(r.pod).name /\ p.uid = Unwrap(r.pod).uid

\* C5 as stated: the caller whose PodStart lost a create race calls PodStart
\* again and that call, unless the API server fails it, ends Ok and returns
\* the pod that exists.
C5_RetrySucceeds ==
    \A t \in Callers :
        (Finished(reqs[t], "PodStart") /\ reqs[t].retry /\ reqs[t].err # "transient")
            => reqs[t].res = "ok" /\ ReturnsExistingPod(reqs[t])

\* C5 amended: (a) a create that meets AlreadyExists is the last cluster call
\* of its PodStart, which returns the error at once; (b) the object it tried
\* to create exists then; (c) a following PodStart of that caller that
\* arrives when the PVC, the Service and the Pod all exist, and runs with no
\* API failure and no concurrent change of these objects, ends Ok and
\* returns the pod that exists.
C5_ConflictThenRetry ==
    \A t \in Callers :
        LET r == reqs[t] IN
        /\ \A i \in DOMAIN r.log :
               r.log[i].res = "conflict" =>
                   /\ i = Len(r.log)
                   /\ r.pc = "done" /\ r.res = "error" /\ r.err = "conflict"
                   /\ r.log[i].obj \in Triplet(cluster, Unwrap(r.user))
        /\ (Finished(r, "PodStart") /\ r.retry /\ r.err # "transient"
                /\ r.start = Full /\ r.clean)
              => r.res = "ok" /\ ReturnsExistingPod(r)

\* C5 witness: the retry of a PodStart that lost a create race, made when the
\* triplet is complete, has returned the existing pod
C5_Witness ==
    \E t \in Callers :
        /\ Finished(reqs[t], "PodStart") /\ reqs[t].retry
        /\ reqs[t].start = Full /\ reqs[t].clean
        /\ reqs[t].res = "ok" /\ ReturnsExistingPod(reqs[t])

Creates(r) == SelectSeq(r.log, LAMBDA e : e.op = "create")

\* C6: a PodStart that arrives when the user's PVC, Service and Pod all exist
\* and meets no interference issues no create call, and, unless the API
\* server fails it, ends Ok with the pod that exists; the cluster keeps the
\* objects it had (the requests' only mutating calls in PodStart are creates).
C6_EnsureIdempotent ==
    \A t \in Callers :
        LET r == reqs[t] IN
        (r.kind = "PodStart" /\ r.start = Full /\ r.clean) =>
            /\ Creates(r) = <<>>
            /\ Triplet(cluster, Unwrap(r.user)) = Full
            /\ (r.pc = "done" /\ r.err # "transient")
                  => r.res = "ok" /\ ReturnsExistingPod(r)

\* C6 witness: such a PodStart has ended Ok, with three gets and no create
C6_Witness ==
    \E t \in Callers :
        /\ Finished(reqs[t], "PodStart") /\ reqs[t].res = "ok"
        /\ reqs[t].start = Full /\ reqs[t].clean /\ ~reqs[t].retry
        /\ Len(reqs[t].log) >= 3 /\ Creates(reqs[t]) = <<>>

Rank(obj) == CASE obj = "pvc" -> 1 [] obj = "svc" -> 2 [] obj = "pod" -> 3 [] OTHER -> 4

\* the result of the latest get of obj before call i of a log
RECURSIVE LatestGet(_, _, _)
LatestGet(log, obj, i) ==
    IF i = 0 THEN "none"
    ELSE IF log[i].op = "get" /\ log[i].obj = obj THEN log[i].res
    ELSE LatestGet(log, obj, i - 1)

\* C7: in every PodStart of a verified user the creates are issued in the order PVC, Service,
\* Pod; each follows a get of the same object that found it absent; a get or
\* create that fails is the last cluster call of the request, which returns
\* the error; and a PodStart that arrives at an empty namespace and meets no
\* interference and no API failure creates exactly PVC, Service, Pod.
C7_CreateOrder ==
    \A t \in Callers :
        LET r == reqs[t] IN
        (r.kind = "PodStart" /\ IsSome(r.user)) =>
            /\ \A i, j \in DOMAIN r.log :
                   (i < j /\ r.log[i].op = "create" /\ r.log[j].op = "create")
                       => Rank(r.log[i].obj) < Rank(r.log[j].obj)
            /\ \A i \in DOMAIN r.log :
                   r.log[i].op = "create" => LatestGet(r.log, r.log[i].obj, i - 1) = "absent"
            /\ \A i \in DOMAIN r.log :
                   r.log[i].res \notin {"found", "absent", "ok"}
                       => i = Len(r.log) /\ r.pc = "done" /\ r.res = "error"
            /\ (r.pc = "done" /\ r.start = {} /\ r.clean /\ r.err # "transient")
                  => /\ r.res = "ok"
                     /\ [i \in DOMAIN Created(r) |-> Created(r)[i].obj] = <<"pvc", "svc", "pod">>

\* C7 witness: a PodStart from the empty namespace has created all three
C7_Witness ==
    \E t \in Callers :
        /\ Finished(reqs[t], "PodStart") /\ reqs[t].start = {} /\ reqs[t].res = "ok"
        /\ Len(Created(reqs[t])) = 3
        /\ Triplet(cluster, Unwrap(reqs[t].user)) = Full

\* C8: when a PodStop of a whitelisted user has returned Ok, the user's pod
\* is gone or being deleted, the service is gone and the claim the user had
\* is still there; and a PodStatus that follows a PodStop that returned Ok,
\* with no PodStart step in between, answers NotFound.
C8_StopDeletes ==
    \A t \in Callers :
        LET r == reqs[t] IN
        /\ (Finished(r, "PodStop") /\ r.res = "ok") =>
              /\ \A p \in PodsNamed(cluster, user_pod_name(Unwrap(r.user))) : p.deleting
              /\ service_opt(cluster, user_service_name(Unwrap(r.user))) = None
              /\ "pvc" \in r.start =>
                     IsSome(volume_claim_opt(cluster, user_home_volume_name(Unwrap(r.user))))
        /\ (Finished(r, "PodStatus") /\ r.res = "ok" /\ r.sinceStop) => r.phase = "NotFound"

\* C9: a request whose (username, ssh_public_key) fails verification has
\* issued no cluster call and is answered with the Error variant, whatever
\* its kind.
C9_UnverifiedNoCalls ==
    \A t \in Callers :
        (reqs[t].kind \in Kinds /\ reqs[t].user = None) =>
            /\ reqs[t].pc = "done" /\ reqs[t].res = "error"
            /\ reqs[t].log = <<>>

\* C9 witness: a PodStop that failed verification was answered with an error
\* while the workspace it names is up
C9_Witness ==
    \E t \in Callers :
        /\ reqs[t].kind = "PodStop" /\ reqs[t].user = None
        /\ reqs[t].pc = "done" /\ reqs[t].res = "error" /\ reqs[t].log = <<>>
        /\ \E p \in cluster.pods : ~p.deleting /\ IsSome(service_opt(cluster, p.name))

\* the whitelist entries with the presented username whose trimmed key is
\* the trimmed presented key
Matching ==
    {i \in DOMAIN vin.users :
        /\ vin.users[i].username = vin.username
        /\ trim(vin.users[i].ssh_public_key) = trim(vin.ssh_key)}

\* C10: verify_user succeeds iff the whitelist holds an entry with exactly
\* the presented username whose trimmed key equals the trimmed presented
\* key, and then returns such an entry; otherwise it fails.
C10_VerifyIffListed ==
    IsSome(vout) =>
        /\ Unwrap(vout).ok <=> Matching # {}
        /\ Unwrap(vout).ok => \E i \in Matching : Unwrap(vout).user = Some(vin.users[i])

\* the same for the whitelists in which no username occurs twice
C10_UniqueUsernames ==
    (/\ IsSome(vout)
     /\ \A i, j \in DOMAIN vin.users :
            vin.users[i].username = vin.users[j].username => i = j)
    =>  /\ Unwrap(vout).ok <=> Matching # {}
        /\ Unwrap(vout).ok => \E i \in Matching : Unwrap(vout).user = Some(vin.users[i])

\* the dimensions of the auto-shutdown configuration that are configured,
\* each with its minimum_idle_time and the idle_since of the annotation
Dimensions(annot, cfg) ==
    (IF IsSome(cfg.tcp_idle)
     THEN {[since |-> annot.network_idle_since,
            minimum_idle_time |-> Unwrap(cfg.tcp_idle).minimum_idle_time]}
     ELSE {})
    \cup
    (IF IsSome(cfg.cpu_usage)
     THEN {[since |-> annot.cpu_idle_since,
            minimum_idle_time |-> Unwrap(cfg.cpu_usage).minimum_idle_time]}
     ELSE {})

\* C11: should_shutdown returns true if and only if at least one dimension
\* is configured and every configured dimension has its idle_since set with
\* now - idle_since > minimum_idle_time; a configured dimension whose
\* idle_since is unset forces false.  (A call that panics returns nothing
\* and is left out.)
C11_ShutdownIffAllExceeded ==
    IsSome(vout) /\ ~Unwrap(vout).panic =>
        LET dims == Dimensions(vin.annot, vin.cfg) IN
        Unwrap(vout).value <=>
            /\ dims # {}
            /\ \A d \in dims :
                  /\ IsSome(d.since)
                  /\ vin.now - Unwrap(d.since) > d.minimum_idle_time

\* the annotations that differ from annot in one idle_since that is set in
\* annot and is an earlier timestamp in the other
EarlierIdleSince(annot) ==
    {[annot EXCEPT !.network_idle_since = Some(e)] :
        e \in {t \in ShutdownTimes : /\ IsSome(annot.network_idle_since)
                                      /\ t < Unwrap(annot.network_idle_since)}}
    \cup
    {[annot EXCEPT !.cpu_idle_since = Some(e)] :
        e \in {t \in ShutdownTimes : /\ IsSome(annot.cpu_idle_since)
                                      /\ t < Unwrap(annot.cpu_idle_since)}}

\* C12: should_shutdown is monotone in each idle_since: with the
\* configuration and the clock fixed, replacing a set idle_since by an
\* earlier timestamp never turns a result of true into anything else.
C12_ShutdownMonotone ==
    IsSome(vout) /\ ~Unwrap(vout).panic /\ Unwrap(vout).value =>
        \A earlier \in EarlierIdleSince(vin.annot) :
            LET again == should_shutdown(earlier, vin.cfg, vin.now)
            IN ~again.panic /\ again.value

\* C12 witness: a call that returned false where an earlier idle_since
\* gives true, next to one that returned true and has an earlier timestamp
\* to be replaced by
C12_Witness ==
    /\ IsSome(vout) /\ ~Unwrap(vout).panic /\ ~Unwrap(vout).value
    /\ IsSome(vin.cfg.tcp_idle) /\ IsSome(vin.cfg.cpu_usage)
    /\ \E earlier \in EarlierIdleSince(vin.annot) :
          should_shutdown(earlier, vin.cfg, vin.now).value

\* process_pod_autoshutdown has decided for pod sw.pods[sw.i]: the sweeper
\* is about to delete it or to patch it, or should_shutdown panicked
Decided == sw.pc \in {"delete", "patch", "panicked"}

\* the annotation of the pod in hand as the listing of this tick showed it
OldAnnotation(st) == PodMetricsAnnotion_from_pod(st.pods[st.i])

\* last_idle_check of the listed pod is absent or at most StaleLimit old
\* when the tick analyses the pod
Fresh(st) ==
    LET last == OldAnnotation(st).last_idle_check
    IN IsSome(last) => st.t0 - Unwrap(last) >= 0 /\ st.t0 - Unwrap(last) <= StaleLimit

TcpIdleOnly ==
    /\ config.auto_shutdown.enable
    /\ IsSome(config.auto_shutdown.tcp_idle)
    /\ config.auto_shutdown.cpu_usage = None

\* only tcp_idle is configured; the pod in hand was listed with a
\* network_idle_since more than minimum_idle_time before the tick and a
\* last_idle_check that is not stale, and the probe of this tick found no
\* TCP connection (the new annotation keeps network_idle_since)
IdleLongEnough(st) ==
    /\ TcpIdleOnly
    /\ Fresh(st)
    /\ IsSome(OldAnnotation(st).network_idle_since)
    /\ st.t0 - Unwrap(OldAnnotation(st).network_idle_since)
            > Unwrap(config.auto_shutdown.tcp_idle).minimum_idle_time
    /\ IsSome(st.annot.network_idle_since)

\* the annotations of the pods of a name
AnnotationsOf(c, name) == {p.annot : p \in PodsNamed(c, name)}

\* C13: with only tcp_idle configured and auto-shutdown enabled, a tick that
\* observes zero TCP connections for a pod whose network_idle_since is more
\* than minimum_idle_time in the past (last_idle_check absent or at most 5
\* minutes old) decides to delete that pod, and its delete step marks the
\* pod deleted (or leaves the cluster as it is when the call fails) and
\* patches no annotation.
C13_IdlePodDeleted ==
    [][ /\ sw.pc = "exec" /\ sw'.pc \in {"delete", "patch", "panicked"}
           /\ IdleLongEnough(sw)'
           => sw'.pc = "delete"
        /\ sw.pc = "delete" /\ IdleLongEnough(sw) /\ sw' # sw
           => LET name == sw.pods[sw.i].name
              IN /\ ~(sw'.pc = "patch" /\ sw'.i = sw.i)
                 /\ AnnotationsOf(cluster', name) = AnnotationsOf(cluster, name)
                 /\ \/ cluster' = cluster
                    \/ \A p \in PodsNamed(cluster', name) : p.deleting
      ]_vars

\* C13 witness: alice's pod, idle on the network for longer than
\* minimum_idle_time, is being deleted by the tick that probed it and was
\* not patched (its annotation was never written by this operator run)
C13_Witness ==
    /\ sw.pc = "exec" /\ sw.i = 2
    /\ TcpIdleOnly
    /\ LET alice == sw.pods[1]
       IN /\ Fresh([sw EXCEPT !.i = 1])
          /\ IsSome(alice.annot)
          /\ IsSome(Unwrap(alice.annot).network_idle_since)
          /\ PodsNamed(cluster, alice.name) = {[alice EXCEPT !.deleting = TRUE]}

\* C14: with tcp_idle configured (with or without cpu_usage), a pod whose
\* probe reports at least one TCP connection (the new annotation has
\* network_idle_since unset) is not deleted in that tick: the sweeper goes on
\* to patch the annotation with network_idle_since unset.
C14_ActivePodKept ==
    /\ Decided
    /\ config.auto_shutdown.enable /\ IsSome(config.auto_shutdown.tcp_idle)
    /\ sw.annot.network_idle_since = None
    => sw.pc = "patch"

\* C14 with tcp_idle alone: the pod with a connection is patched
C14_ActivePodKeptTcpOnly ==
    Decided /\ TcpIdleOnly /\ sw.annot.network_idle_since = None => sw.pc = "patch"

\* last_idle_check of the listed pod is more than StaleLimit before the
\* clock reading of the tick
Stale(st) ==
    LET last == OldAnnotation(st).last_idle_check
    IN IsSome(last) /\ st.t0 - Unwrap(last) > StaleLimit

\* the new annotation's idle_since are unset or the tick's clock reading
IdleSinceReset(st) ==
    /\ st.annot.cpu_idle_since \in {None, Some(st.t0)}
    /\ st.annot.network_idle_since \in {None, Some(st.t0)}

\* the new annotation's idle_since, where set, are the old ones where those
\* were set
IdleSinceKept(st) ==
    LET old == OldAnnotation(st) IN
    /\ IsSome(st.annot.cpu_idle_since) /\ IsSome(old.cpu_idle_since)
          => st.annot.cpu_idle_since = old.cpu_idle_since
    /\ IsSome(st.annot.network_idle_since) /\ IsSome(old.network_idle_since)
          => st.annot.network_idle_since = old.network_idle_since

\* C15: a last_idle_check more than 5 minutes before the tick's now discards
\* both idle_since (the new annotation has each unset or equal to now), so
\* with the positive minimum_idle_time of the configuration the pod is not
\* deleted in that tick; with a gap of 5 minutes or less the old values are
\* kept.
C15_StaleNotDeleted ==
    Decided =>
        /\ Stale(sw) => IdleSinceReset(sw) /\ sw.pc # "delete"
        /\ Fresh(sw) => IdleSinceKept(sw)

\* C15 without the deletion: what analyze_pod_autoshutdown writes
C15_StaleReset ==
    Decided =>
        /\ Stale(sw) => IdleSinceReset(sw)
        /\ Fresh(sw) => IdleSinceKept(sw)

\* the gauges check_pods sets after a loop over the whole listing
Inventory(pods) ==
    LET count[k \in 0..Len(pods)] ==
            IF k = 0 THEN [available |-> 0, unavailable |-> 0]
            ELSE Counted(count[k - 1], pods[k])
    IN count[Len(pods)]

\* C16: a failure of the metrics listing does not abort the tick: no error
\* is returned, the loop runs over the listed pods with an empty metrics
\* list (the first pod is analysed without metrics, so its CPU is not idle,
\* and probed), and a loop that ends at once has counted every listed pod.
C16_MetricsFailureTolerated ==
    [][ sw.pc = "list_metrics" /\ sw' # sw =>
          /\ sw'.err = ""
          /\ \/ /\ sw'.pc = "exec" /\ sw'.pods = sw.pods /\ sw'.i \in 1..Len(sw.pods)
                /\ sw'.metrics = <<>> =>
                      /\ sw'.i = 1
                      /\ sw'.pre = analyze_before_exec(sw.pods[1], None,
                                                       config.auto_shutdown, sw'.t0)
                      /\ ~sw'.pre.cpu_is_idle
             \/ /\ sw'.pc = "idle"
                /\ gauges' = Inventory(sw.pods)
      ]_vars

\* C16 witness: the metrics listing failed (two pods listed, no metrics) and
\* the sweeper is at the probe of the second pod
C16_Witness ==
    /\ sw.pc = "exec" /\ sw.i = 2
    /\ Len(sw.pods) = 2 /\ sw.metrics = <<>>

\* the probe of pod sw.pods[sw.i] goes on: the exec call has returned and
\* the output is awaited, or the output has been read and the process is
\* awaited
ProbeGoesOn == sw.pc = "exec" /\ sw'.pc = "exec" /\ sw'.wait # "exec"

\* the sweeper leaves pod sw.pods[sw.i] (or starts the loop): its step is
\* neither a step within the probe of that pod nor the decision to delete
\* or patch it
LeavesPod ==
    /\ sw.pc \in {"list_metrics", "exec", "delete", "patch"}
    /\ sw' # sw
    /\ ~ProbeGoesOn
    /\ ~(sw.pc = "exec" /\ sw'.pc \in {"delete", "patch", "panicked"})

\* the analysis of pod j of the listing fails before the probe
AnalysisFails(st, j, t) ==
    ~analyze_before_exec(st.pods[j], find_metrics(st.metrics, st.pods[j].name),
                         config.auto_shutdown, t).ok

\* C17: whatever ends the processing of one pod (a failed analysis, probe,
\* patch or delete as much as a successful patch or delete), the loop goes
\* on: the next pod whose analysis succeeds is probed, the pods passed over
\* are those whose analysis failed, and after the last pod the tick
\* completes without an error and sets the gauges to the counts of the
\* whole listing.
C17_PodFailureIsolated ==
    [][ LeavesPod =>
          /\ sw'.err = ""
          /\ \/ /\ sw'.pc = "exec" /\ sw'.pods = sw.pods
                /\ sw'.i \in (sw.i + 1)..Len(sw.pods)
                /\ \A j \in (sw.i + 1)..(sw'.i - 1) : AnalysisFails(sw', j, sw'.t0)
             \/ /\ sw'.pc = "idle"
                /\ gauges' = Inventory(sw.pods)
                /\ sw.pc # "list_metrics" =>
                      \A j \in (sw.i + 1)..Len(sw.pods) : AnalysisFails(sw, j, now)
      ]_vars

\* C17 witness: the processing of alice's pod failed in this tick (the pod
\* is as it was listed: neither patched nor deleted) and the sweeper is at
\* the probe of bob's pod
C17_Witness ==
    /\ sw.pc = "exec" /\ sw.i = 2
    /\ sw.pods[1] \in cluster.pods
    /\ sw.pods[1].name # sw.pods[2].name

\* C18: a failure of the namespace re-ensure at the start of a tick does not
\* end the tick: whatever the outcome of ensure_namespace, the sweeper goes
\* on to the pod listing (through the creation of the namespace when it is
\* absent) and no error is returned from the tick.
C18_NamespaceFailureContinues ==
    [][ sw.pc \in {"idle", "ns_create"} /\ sw' # sw =>
          /\ sw'.pc \in {"ns_create", "list_pods"}
          /\ sw'.err = ""
      ]_vars

\* C18, the part about the loop: after a failed tick the sweeper waits for
\* the next tick, which starts with ensure_namespace again
C18_LoopGoesOn ==
    sw.err # "" => sw.pc = "idle" /\ ENABLED (\E api \in ApiOutcomes : SweepEnsureNamespace(api))

\* Operator::launch returned an error
LaunchHasFailed == proc.err = "operator failed"

\* the namespace check of launch found the namespace absent
FoundAbsent == proc.found = Some(FALSE)

\* C19: at startup a namespace found absent is created when
\* auto_create_namespace is true (launch then succeeds only with the
\* namespace in the cluster) and makes launch fail when the flag is false;
\* after a failed launch the sweeper has not been spawned and never runs
\* and the HTTP server has not been started and takes no request; the
\* sweeper is spawned only after the namespace check of launch succeeded.
C19_Startup ==
    /\ FoundAbsent /\ config.auto_create_namespace
          => proc.pc = "ns_create" \/ LaunchHasFailed \/ cluster.namespace
    /\ FoundAbsent /\ ~config.auto_create_namespace => LaunchHasFailed
    /\ LaunchHasFailed =>
          /\ ~proc.sweeper /\ sw = SwIdle
          /\ ~proc.server /\ nreq = 0
    /\ proc.sweeper => IsSome(proc.found) /\ cluster.namespace
    /\ sw # SwIdle => proc.sweeper
    /\ nreq > 0 => proc.server

\* C19 witness: the namespace was absent with auto-creation off: launch has
\* failed, main has returned, nothing was spawned or bound
C19_Witness ==
    /\ FoundAbsent /\ ~config.auto_create_namespace
    /\ LaunchHasFailed /\ proc.pc = "exited"
    /\ ~proc.sweeper /\ ~proc.server

\* C19, the other case: the namespace was absent and has been created, the
\* sweeper spawned after it is in its first tick
C19_Created ==
    /\ FoundAbsent /\ config.auto_create_namespace
    /\ cluster.namespace /\ proc.sweeper /\ sw.pc = "list_pods"

\* C20: the exit status of the process is non-zero exactly on startup
\* failures: a process that ended because the configuration did not load,
\* Operator::launch failed or the server could not be bound has a non-zero
\* status, and once the server runs no error of a sweeper tick or of an API
\* request ends the process.
C20_ExitStatus ==
    /\ IsSome(proc.exit) => Unwrap(proc.exit) # 0
    /\ proc.server => proc.exit = None

\* C20, the part about the steady state: no step of the sweeper or of an
\* API request, failed or not, ends the process
C20_SteadyState ==
    [][ sw' # sw \/ reqs' # reqs => proc' = proc /\ proc.exit = None ]_vars

\* enable is false, or neither cpu_usage nor tcp_idle is configured
ShutdownOff ==
    \/ ~config.auto_shutdown.enable
    \/ config.auto_shutdown.cpu_usage = None /\ config.auto_shutdown.tcp_idle = None

\* C21: when auto-shutdown is not enabled (enable is false, or no dimension
\* is configured), no step of a sweeper tick probes, patches or deletes a
\* pod: the pods of the cluster stay as they are.
C21_DisabledLeavesPods ==
    [][ ShutdownOff =>
          /\ cluster'.pods = cluster.pods
          /\ sw'.pc \notin {"exec", "delete", "patch", "panicked"}
      ]_vars

\* C21 witness: auto-shutdown is off, a tick has listed and counted the two
\* pods and is over
C21_Witness ==
    /\ ShutdownOff
    /\ sw.pc = "idle" /\ sw.err = ""
    /\ gauges.available = 2
    /\ Cardinality(cluster.pods) = 2

\* every container status of the pod is ready (none missing means the list
\* is there)
EveryContainerReady ==
    /\ vin.container_statuses # None
    /\ \A k \in DOMAIN Unwrap(vin.container_statuses) : Unwrap(vin.container_statuses)[k]

\* C22: from_pod returns a phase for every pod, by the cascade:
\* deletionTimestamp set gives Terminating whatever status.phase is; Pending
\* gives Starting; Running gives Ready with every container status ready
\* and Starting otherwise; Succeeded and Failed give Terminating; Unknown,
\* any other string and a missing phase give Unknown; never NotFound.
C22_PhaseCascade ==
    IsSome(vout) =>
        /\ Unwrap(vout) \in {"Starting", "Ready", "Terminating", "Unknown"}
        /\ Unwrap(vout) =
              CASE vin.deleting -> "Terminating"
                [] ~vin.deleting /\ vin.phase = Some("Pending") -> "Starting"
                [] ~vin.deleting /\ vin.phase = Some("Running") ->
                        IF EveryContainerReady THEN "Ready" ELSE "Starting"
                [] ~vin.deleting /\ vin.phase \in {Some("Succeeded"), Some("Failed")} ->
                        "Terminating"
                [] OTHER -> "Unknown"

\* C22 witness: a pod that runs with all containers ready and is being
\* deleted is classified Terminating
C22_Witness ==
    /\ vout = Some("Terminating")
    /\ vin.deleting /\ vin.phase = Some("Running") /\ EveryContainerReady

\* what the get of object obj in the log of request r found ("" when the
\* request made no such call)
Got(r, obj) ==
    LET gets == SelectSeq(r.log, LAMBDA e : e.op = "get" /\ e.obj = obj)
    IN IF gets = <<>> THEN "" ELSE gets[Len(gets)].res

\* C23: a PodStatus request only reads the cluster; when it returns Ok with
\* the Service or the Pod absent, the phase is NotFound with no pod and no
\* node, and the service it found, if any, is still in the status; with
\* both found the phase is that of the pod, never NotFound, and the node is
\* fetched if and only if the pod has a nodeName.
C23_StatusNotFound ==
    \A s \in Callers :
        LET r == reqs[s] IN
        r.kind = "PodStatus" =>
            /\ \A k \in DOMAIN r.log : r.log[k].op = "get"
            /\ Finished(r, "PodStatus") /\ r.res = "ok" =>
                  IF Got(r, "svc") = "absent" \/ Got(r, "pod") = "absent"
                  THEN /\ r.phase = "NotFound"
                       /\ r.pod = None /\ r.node = None
                       /\ IsSome(r.service) <=> Got(r, "svc") = "found"
                  ELSE /\ Got(r, "svc") = "found" /\ Got(r, "pod") = "found"
                       /\ IsSome(r.service) /\ IsSome(r.pod)
                       /\ r.phase = WorkspacePhase_from_pod(Unwrap(r.pod))
                       /\ r.phase # "NotFound"
                       /\ Got(r, "node") = "found" <=> IsSome(Unwrap(r.pod).node)
                       /\ r.node = Unwrap(r.pod).node

\* C23 witness: a PodStatus answered NotFound while the user's pod exists,
\* because the Service is absent
C23_Witness ==
    \E s \in Callers :
        /\ Finished(reqs[s], "PodStatus") /\ reqs[s].res = "ok"
        /\ reqs[s].phase = "NotFound"
        /\ Got(reqs[s], "svc") = "absent" /\ Got(reqs[s], "pod") = "found"

\* the node of the addressed pod has an address of type InternalIP
HasInternalIP(node) ==
    /\ node.status # None
    /\ Unwrap(node.status).addresses # None
    /\ \E k \in DOMAIN Unwrap(Unwrap(node.status).addresses) :
            Unwrap(Unwrap(node.status).addresses)[k].type_ = "InternalIP"

\* the first port of the service has a NodePort
FirstPortHasNodePort(svc) ==
    /\ svc.spec # None
    /\ Unwrap(svc.spec).ports # None
    /\ Unwrap(Unwrap(svc.spec).ports) # <<>>
    /\ Unwrap(Unwrap(svc.spec).ports)[1].node_port # None

\* the pod was found and has a nodeName
Scheduled == IsSome(vin.pod) /\ IsSome(Unwrap(vin.pod).node)

\* C24: the ssh_address of a PodStart or PodStatus response is present if
\* and only if the status has a node with an InternalIP address and a
\* service whose first port has a NodePort; it is absent when the phase is
\* NotFound and when the pod has no nodeName.
C24_SshAddress ==
    IsSome(vout) =>
        LET out == Unwrap(vout)
            carried == /\ Scheduled
                       /\ vin.kind = "PodStatus" => IsSome(vin.service)
        IN /\ IsSome(out.ssh_address) <=>
                  /\ carried
                  /\ HasInternalIP(vin.node)
                  /\ FirstPortHasNodePort(Unwrap(vin.service))
           /\ out.phase = "NotFound" \/ ~Scheduled => out.ssh_address = None
           /\ IsSome(out.ssh_address) =>
                  /\ Unwrap(out.ssh_address).port =
                        Unwrap(Unwrap(Unwrap(vin.service).spec).ports)[1].node_port[1]
                  /\ \E k \in DOMAIN Unwrap(Unwrap(vin.node.status).addresses) :
                        LET as == Unwrap(Unwrap(vin.node.status).addresses) IN
                        /\ as[k].type_ = "InternalIP"
                        /\ as[k].address = Unwrap(out.ssh_address).address
                        /\ \A j \in 1..(k - 1) : as[j].type_ # "InternalIP"

\* C24 witness: a response with an ssh_address for a node whose InternalIP
\* is not its first address
C24_Witness ==
    /\ IsSome(vout) /\ IsSome(Unwrap(vout).ssh_address)
    /\ Unwrap(Unwrap(vin.node.status).addresses)[1].type_ # "InternalIP"

\* the suffix table as <<suffix, base, exponent>>, with Ki as 2^20
SuffixTable ==
    {<< <<"m">>, 10, -3 >>, << <<>>, 10, 0 >>, << <<"k">>, 10, 3 >>,
     << <<"K", "i">>, 2, 20 >>, << <<"M">>, 10, 6 >>, << <<"M", "i">>, 2, 20 >>,
     << <<"G">>, 10, 9 >>, << <<"G", "i">>, 2, 30 >>, << <<"T">>, 10, 12 >>,
     << <<"T", "i">>, 2, 40 >>, << <<"P">>, 10, 15 >>, << <<"P", "i">>, 2, 50 >>,
     << <<"E">>, 10, 18 >>, << <<"E", "i">>, 2, 60 >>}

\* the same table with Ki as 2^10
SuffixTableKi10 ==
    (SuffixTable \ {<< <<"K", "i">>, 2, 20 >>}) \cup {<< <<"K", "i">>, 2, 10 >>}

InTable(suffix) == \E t \in SuffixTable : t[1] = suffix

\* the input is an optionally signed decimal integer and a suffix of the table
WellFormed == vin.digits # <<>> /\ InTable(vin.suffix)

\* ceil(n x multiplier(suffix)) by the given table, in exact arithmetic and
\* without any limit: n x 10^-3 is n without its last three digits, and one
\* more when n is positive and one of them is not 0
CeilProduct(table) ==
    LET t == CHOOSE t \in table : t[1] = vin.suffix
        n == Magnitude(vin.digits)
        neg == vin.sign = <<"-">>
        thousands == IF Len(n) > 3 THEN SubSeq(n, 1, Len(n) - 3) ELSE <<0>>
        fraction == \E k \in DOMAIN n : k > Len(n) - 3 /\ n[k] # 0
        mag == IF t[3] < 0 THEN (IF fraction /\ ~neg THEN Add(thousands, <<1>>) ELSE thousands)
               ELSE IF t[2] = 10 THEN TimesPow10(n, t[3])
               ELSE TimesPow2(n, t[3])
    IN IF mag = <<0>> THEN I64Zero ELSE [neg |-> neg, mag |-> mag]

\* n lies within the range of an i64
InRange ==
    ~MagLess(IF vin.sign = <<"-">> THEN [I64MaxMag EXCEPT ![19] = 8] ELSE I64MaxMag,
             Magnitude(vin.digits))

\* the error cases: empty input, an invalid leading character, an unknown
\* suffix after a number
ErrorInput ==
    \/ vin.sign \o vin.digits \o vin.suffix = <<>>
    \/ vin.sign = <<>> /\ vin.digits = <<>> /\ vin.suffix # <<>>
    \/ vin.digits # <<>> /\ ~InTable(vin.suffix)

Normal(v) == IF \A k \in DOMAIN v.mag : v.mag[k] = 0 THEN I64Zero ELSE v

RECURSIVE Binade(_, _, _)
Binade(x, limit, k) ==
    IF MagLess(x, limit) THEN k
    ELSE IF MagLess(x, Times(limit, 1024)) THEN Binade(x, Times(limit, 2), k + 1)
    ELSE Binade(x, Times(limit, 1024), k + 10)

\* p / 2^k: [quot, exact], exact when p is a multiple of 2^k
RECURSIVE OverPow2(_, _)
OverPow2(p, k) ==
    IF k = 0 \/ p = <<0>> THEN [quot |-> p, exact |-> TRUE]
    ELSE LET h == DivMod(p, IF k >= 10 THEN 1024 ELSE 2)
             rest == OverPow2(h.quot, IF k >= 10 THEN k - 10 ELSE k - 1)
         IN [quot |-> rest.quot, exact |-> h.rem = 0 /\ rest.exact]

\* p is the f64 nearest to the magnitude x, the one with the even
\* significand when x lies halfway between two: p is a multiple of the
\* spacing 2^k of the f64 values around x, 2 |x - p| <= 2^k, and the
\* multiple is even when the two are equal
NearestF64(x, p) ==
    LET k == Binade(x, Two53, 0)
        unit == TimesPow2(<<1>>, k)
        significand == OverPow2(p, k)
        low == Add(Times(x, 2), unit)
        high == Add(Times(p, 2), unit)
    IN IF k = 0 THEN p = x
       ELSE /\ significand.exact
            /\ ~MagLess(low, Times(p, 2))
            /\ ~MagLess(high, Times(x, 2))
            /\ low = Times(p, 2) \/ high = Times(x, 2) =>
                  significand.quot[Len(significand.quot)] % 2 = 0

\* v is the ceiling of the number of magnitude p / 2^s, negative when neg,
\* limited to the range of an i64: 2^63 - 1 above, -2^63 below
CeilWithinI64(v, neg, p, s) ==
    LET limit == IF neg THEN [I64MaxMag EXCEPT ![19] = 8] ELSE I64MaxMag
        scaled == TimesPow2(v.mag, s)
        one == TimesPow2(<<1>>, s)
    IN IF MagLess(TimesPow2(limit, s), p) THEN v = [neg |-> neg, mag |-> limit]
       ELSE /\ v.neg = (neg /\ v.mag # <<0>>)
            /\ ~neg => ~MagLess(scaled, p) /\ MagLess(scaled, Add(p, one))
            /\ neg => ~MagLess(p, scaled) /\ MagLess(p, Add(scaled, one))

\* n x multiplier(suffix) is an integer that an f64 holds, and so is n
ExactInF64 ==
    LET t == CHOOSE t \in SuffixTableKi10 : t[1] = vin.suffix
        n == Magnitude(vin.digits)
    IN /\ t[3] >= 0
       /\ MagLess(IF t[2] = 10 THEN TimesPow10(n, t[3]) ELSE TimesPow2(n, t[3]), Two53)

C25_Saturated ==
    /\ vin = [sign |-> <<>>, digits |-> <<"8">>, suffix |-> <<"E", "i">>]
    /\ vout = Some([ok |-> TRUE, value |-> [neg |-> FALSE, mag |-> I64MaxMag]])

\* a PodStart that has returned Ok and met no change of the user's objects
\* by anyone else while it ran
UndisturbedStart(r) == Finished(r, "PodStart") /\ r.res = "ok" /\ r.clean

\* C26: after the sweeper has deleted the user's pod, the next PodStart of
\* the user re-creates Pod workspace-{u} and returns a status for the new
\* pod: it does not return the deleted pod.
C26_Recreated ==
    \A s \in Callers :
        LET r == reqs[s] IN
        UndisturbedStart(r) =>
            /\ ~Unwrap(r.pod).deleting
            /\ r.phase # "Terminating"

\* C26, the part that holds: a PodStart that arrives when the deleted pod is
\* gone creates the pod anew and returns the new pod
C26_RecreatedOnceGone ==
    \A s \in Callers :
        LET r == reqs[s] IN
        UndisturbedStart(r) /\ "pod" \notin r.start =>
            /\ \E k \in DOMAIN r.log :
                    r.log[k].op = "create" /\ r.log[k].obj = "pod" /\ r.log[k].res = "ok"
            /\ Unwrap(r.pod).uid > 1
            /\ ~Unwrap(r.pod).deleting
            /\ r.phase = "Starting"

\* C26: such a PodStart has happened
C26_OnceGone ==
    \E s \in Callers : UndisturbedStart(reqs[s]) /\ "pod" \notin reqs[s].start

\* the positions in the log of request r of the deletes of object obj
Deletes(r, obj) == {k \in DOMAIN r.log : r.log[k].op = "delete" /\ r.log[k].obj = obj}

\* C27: a PodStop deletes the pod before the service: a service delete comes
\* directly after a pod delete that succeeded; a pod delete that fails, also
\* with 404, ends the request with the error and no service delete; a
\* service delete that fails ends the request with the error and the pod
\* stays deleted; the request creates nothing.
C27_ShutdownOrder ==
    \A s \in Callers :
        LET r == reqs[s] IN
        r.kind = "PodStop" =>
            /\ \A k \in DOMAIN r.log : r.log[k].op \in {"get", "delete"}
            /\ \A k \in Deletes(r, "svc") :
                    /\ k > 1
                    /\ r.log[k - 1] = [op |-> "delete", obj |-> "pod", res |-> "ok"]
            /\ \A k \in Deletes(r, "pod") :
                    IF r.log[k].res = "ok"
                    THEN k = Len(r.log) => r.pc = "svc_delete"
                    ELSE /\ k = Len(r.log)
                         /\ r.pc = "done" /\ r.res = "error"
                         /\ r.err = IF r.log[k].res = "notfound" THEN "notfound" ELSE "transient"
            /\ \A k \in Deletes(r, "svc") :
                    /\ k = Len(r.log) /\ r.pc = "done"
                    /\ r.log[k].res # "ok" =>
                          /\ r.res = "error"
                          /\ r.clean => \A p \in PodsNamed(cluster, user_pod_name(Unwrap(r.user))) :
                                            p.deleting
                    /\ r.log[k].res = "ok" => r.res = "ok"

\* C27 witness: the service delete failed after the pod delete, the request
\* has returned the error and the pod is being deleted
C27_Witness ==
    \E s \in Callers :
        LET r == reqs[s] IN
        /\ Finished(r, "PodStop") /\ r.res = "error" /\ r.clean
        /\ Deletes(r, "svc") # {} /\ LastCall(r).res = "error"
        /\ \E p \in cluster.pods : p.name = user_pod_name(Unwrap(r.user)) /\ p.deleting

\* C27, second case: the pod delete met 404 and no service delete followed
C27_PodGone ==
    \E s \in Callers :
        LET r == reqs[s] IN
        /\ Finished(r, "PodStop") /\ r.err = "notfound"
        /\ LastCall(r) = [op |-> "delete", obj |-> "pod", res |-> "notfound"]

\* the old idle_since of a dimension, unset when the last check is stale
ValidOld(st, dim) == IF Stale(st) THEN None ELSE OldAnnotation(st)[dim]

\* the idle_since the rule gives a dimension
NewIdleSince(st, dim, is_idle) ==
    IF ~is_idle THEN None
    ELSE IF IsSome(ValidOld(st, dim)) THEN ValidOld(st, dim) ELSE Some(st.t0)

\* C28: the new annotation of an analysed pod has last_idle_check = now (the
\* clock reading of the analysis) and, for each dimension, idle_since = the
\* old value when the dimension is idle and the old value is set and not
\* invalidated, = now when it is idle and the old value is unset, and unset
\* when it is not idle; so an idle dimension whose last check is at most 5
\* minutes old keeps its idle_since from tick to tick.
C28_NewAnnotation ==
    Decided =>
        /\ sw.annot.last_idle_check = Some(sw.t0)
        /\ sw.annot.cpu_idle_since = NewIdleSince(sw, "cpu_idle_since", sw.pre.cpu_is_idle)
        /\ sw.annot.network_idle_since =
              NewIdleSince(sw, "network_idle_since", sw.active_connections = 0)
        /\ \A dim \in {"cpu_idle_since", "network_idle_since"} :
              Fresh(sw) /\ IsSome(OldAnnotation(sw)[dim]) /\ IsSome(sw.annot[dim])
                  => sw.annot[dim] = OldAnnotation(sw)[dim]

\* C28 witness: a second tick finds the pod idle on the network again; the
\* annotation the first tick wrote gives the idle_since of the new one
C28_Witness ==
    /\ Decided /\ sw.active_connections = 0
    /\ IsSome(OldAnnotation(sw).last_idle_check)
    /\ Unwrap(OldAnnotation(sw).last_idle_check) >= 0
    /\ sw.t0 > Unwrap(OldAnnotation(sw).last_idle_check)
    /\ IsSome(OldAnnotation(sw).network_idle_since)
    /\ sw.annot.network_idle_since = OldAnnotation(sw).network_idle_since

\* C28, the other cases: a busy dimension whose idle_since was set, and an
\* idle one whose idle_since was unset
C28_Busy ==
    /\ Decided /\ sw.active_connections = 1 /\ Fresh(sw)
    /\ IsSome(OldAnnotation(sw).network_idle_since)
    /\ sw.annot.network_idle_since = None

\* an await of the exec of the pod in hand returns in this step
ExecStep == sw.pc = "exec" /\ sw' # sw

\* ... and process_pod_autoshutdown goes on to its decision for that pod
ExecDecides == ExecStep /\ sw'.pc \in {"delete", "patch", "panicked"} /\ sw'.i = sw.i

\* the exec of the pod in hand returns an error in this step: the exec call
\* failed, stdout was not attached, the output could not be read, or the
\* process did not terminate or did not end with Success
ExecFails ==
    \E api \in ExecOutcomes \ {"ok"} : \E n \in {0, 1} : SweepPodExec(api, n)

\* the sweeper's patch or delete has changed a pod of that name
Touched(name) ==
    \E p \in cluster.pods : \E q \in cluster'.pods :
        /\ p.name = name /\ q.name = name /\ p.uid = q.uid
        /\ (p.annot # q.annot \/ p.deleting # q.deleting)

\* C29: when the exec that counts the TCP connections fails for a pod (exec
\* error, missing stdout, or an exit other than Success), the tick deletes
\* and patches nothing for that pod: the failing step leaves the cluster as
\* it is and the sweeper goes on to a later pod or ends the tick, never to
\* the delete or the patch of that pod; no later step of the tick deletes
\* or patches that pod, so its annotation, last_idle_check included, stays
\* as it was.
C29_ExecFailureSkips ==
    [][ /\ ExecStep => cluster' = cluster
        /\ ExecFails =>
              /\ ~ExecDecides
              /\ sw'.pc \in {"exec", "delete", "patch", "panicked"} =>
                    sw'.i > sw.i /\ sw.i \in sw'.exec_failed
              /\ sw'.pc \notin {"exec", "delete", "patch", "panicked"} =>
                    sw'.pc = "idle" /\ sw'.exec_failed = {}
        /\ sw.pc \in {"exec", "delete", "patch", "panicked"} =>
              /\ \A k \in sw.exec_failed : k < sw.i
              /\ sw'.pc \in {"exec", "delete", "patch", "panicked"} =>
                    sw.exec_failed \subseteq sw'.exec_failed /\ sw'.i >= sw.i
        /\ sw' # sw /\ sw.pc \in {"delete", "patch"} =>
              \A k \in sw.exec_failed :
                    sw.pods[k].name # sw.pods[sw.i].name /\ ~Touched(sw.pods[k].name)
      ]_vars

\* C29 witness: the exec failed for alice's pod while it ran, the sweeper is
\* about to patch bob's, and alice's pod is in the cluster as the tick
\* listed it
C29_Witness ==
    /\ sw.pc = "patch" /\ sw.i = 2 /\ 1 \in sw.exec_failed
    /\ sw.pods[1] \in cluster.pods
    /\ sw.pods[1].phase = Some("Running") /\ ~sw.pods[1].deleting
    /\ IsSome(sw.pods[1].annot)

\* the entries of the listing that carry the name of alice's pod
OwnEntries == SelectSeq(vin.metrics, LAMBDA e : e.name = "workspace-alice")

\* the decoded usage.cpu of a container: 1500m is 1.5, rounded up
UsageValue(q) ==
    CASE q = <<"1">> -> 1
      [] q = <<"2">> -> 2
      [] q = <<"1", "5", "0", "0", "m">> -> 2

\* the sum over the containers of the pod's entry
UsageSum ==
    LET cs == Head(OwnEntries).containers
        sum[k \in 0..Len(cs)] == IF k = 0 THEN 0 ELSE sum[k - 1] + UsageValue(cs[k])
    IN sum[Len(cs)]

\* every usage.cpu of the pod's entry can be decoded
Decodable ==
    \A k \in DOMAIN Head(OwnEntries).containers :
        Head(OwnEntries).containers[k] # <<"5", "n">>

\* C30: cpu_is_idle is true exactly when cpu_usage is configured, the
\* listing has an entry with the pod's name and the sum of the decoded
\* usage.cpu of its containers is strictly greater than cpu_threshold; it is
\* false when cpu_usage is not configured and when no entry has the pod's
\* name. (With an entry whose quantity cannot be decoded the analysis of the
\* pod fails and there is no value.)
C30_CpuIsIdle ==
    IsSome(vout) =>
        LET out == Unwrap(vout)
            measured == IsSome(vin.cpu_usage) /\ OwnEntries # <<>>
        IN /\ out.ok <=> (measured => Decodable)
           /\ out.ok =>
                 (out.cpu_is_idle <=>
                    /\ measured
                    /\ UsageSum > Unwrap(vin.cpu_usage).cpu_threshold)
           /\ vin.cpu_usage = None \/ OwnEntries = <<>> => out.ok /\ ~out.cpu_is_idle

\* C30 witness: two containers, 1 and 1500m, make 3, above the threshold 2
C30_Witness ==
    /\ IsSome(vout) /\ Unwrap(vout).ok /\ Unwrap(vout).cpu_is_idle
    /\ Unwrap(vin.cpu_usage).cpu_threshold = 2
    /\ Head(OwnEntries).containers = << <<"1">>, <<"1", "5", "0", "0", "m">> >>

\* C30, the boundary: a sum equal to the threshold is not idle
C30_AtThreshold ==
    /\ IsSome(vout) /\ Unwrap(vout).ok /\ ~Unwrap(vout).cpu_is_idle
    /\ IsSome(vin.cpu_usage) /\ OwnEntries # <<>>
    /\ Decodable /\ UsageSum = Unwrap(vin.cpu_usage).cpu_threshold

-----------------------------------------------------------------------------
(* Ticks do not overlap *)

\* the sweeper is inside check_pods with the listing in hand
InTick(st) == st.pc \in {"list_metrics", "exec", "delete", "patch"}

\* C32: at most one tick runs at a time.  run_checks starts (ensure_namespace,
\* then the listing) only from the wait on interval.tick(), that is after the
\* previous run_checks has returned; inside a tick the listing is fixed, the
\* sweeper is at exactly one pod of it, and the pods are taken in listing
\* order, each at most once; the clock may pass while the tick runs.
C32_OneTickAtATime ==
    [][/\ (sw' # sw /\ sw'.pc \in {"ns_create", "list_pods"})
            => sw.pc \in {"idle", "ns_create"} /\ sw'.pods = <<>>
       /\ (sw.pc = "list_pods" /\ InTick(sw'))
            => sw'.pods = Listing(cluster.pods) /\ sw'.i = 0
       /\ (InTick(sw) /\ InTick(sw'))
            => /\ sw'.pods = sw.pods
               /\ sw'.i >= sw.i
               /\ (sw'.pc = "exec" /\ sw' # sw) =>
                     IF sw'.wait = "exec" THEN sw'.i > sw.i
                     ELSE sw.pc = "exec" /\ sw'.i = sw.i
               /\ (sw'.pc \in {"delete", "patch"} /\ sw' # sw)
                    => sw.pc = "exec" /\ sw.wait = "join" /\ sw'.i = sw.i
       /\ sw'.pc \in {"exec", "delete", "patch"} => sw'.i \in 1..Len(sw'.pods)
      ]_vars

\* a slow tick: the second pod of the listing is probed two minutes after
\* the first one was analysed, and the same tick is still running
C32_Witness ==
    /\ sw.pc = "exec" /\ sw.i = 2 /\ Len(sw.pods) = 2
    /\ sw.annot.last_idle_check = Some(0)
    /\ now = 2

-----------------------------------------------------------------------------
(* The gauges *)

\* the pods of a listing that are Ready / Starting
ReadyPods(pods) ==
    {k \in 1..Len(pods) :
        ~pods[k].deleting /\ pods[k].phase = Some("Running") /\ pods[k].ready}

StartingPods(pods) ==
    {k \in 1..Len(pods) :
        /\ ~pods[k].deleting
        /\ \/ pods[k].phase = Some("Pending")
           \/ pods[k].phase = Some("Running") /\ ~pods[k].ready}

\* C31: when check_pods returns after a listing that succeeded,
\* workspace_available_count is the number of listed pods that are Ready and
\* workspace_unavailable_count the number that are Starting, in the listing
\* of this tick and whatever the gauges were before; pods in other phases
\* count for neither; this is so with auto-shutdown on or off and whatever
\* failed for single pods.  No other step changes the gauges.
C31_GaugesPerTick ==
    [][/\ (InTick(sw) /\ ~InTick(sw'))
            => /\ sw'.pc = "idle" /\ sw'.err = ""
               /\ gauges' = [available |-> Cardinality(ReadyPods(sw.pods)),
                             unavailable |-> Cardinality(StartingPods(sw.pods))]
       /\ gauges' # gauges => InTick(sw) /\ ~InTick(sw')
      ]_vars

\* a second tick has ended: the gauges say one Ready pod, where the tick
\* before had counted a Starting one as well, which is Terminating by now
C31_Witness ==
    /\ sw.pc = "idle" /\ sw.err = ""
    /\ gauges = [available |-> 1, unavailable |-> 0]
    /\ \E p \in cluster.pods : p.user = "bob" /\ p.deleting /\ ~p.ready
    /\ autoshutdown_enabled(config)

\* with auto-shutdown off the gauges are set as well
C31_Disabled ==
    /\ ~autoshutdown_enabled(config)
    /\ gauges = [available |-> 1, unavailable |-> 1]

-----------------------------------------------------------------------------
(* Delete or patch *)

\* process_pod_autoshutdown decides for pod sw.pods[sw.i]: the analysis has
\* succeeded
Decides == sw.pc = "exec" /\ sw'.pc \in {"delete", "patch"}

\* C33: with auto-shutdown enabled, a listed pod whose analysis succeeds is
\* either deleted or patched, and a pod that carries no annotation yet is
\* patched: the first sweep that analyses it writes its annotation.
C33_FirstSweepAnnotates ==
    [][Decides /\ sw.pods[sw.i].annot = NoAnnotation => sw'.pc = "patch"]_vars

\* C33, the decision alone: after a successful analysis exactly one of
\* pod_delete and pod_patch is called for the pod, the delete exactly when
\* should_shutdown returns true; the delete call leaves every annotation as
\* it is and the patch call deletes nothing; then the next pod is taken.
C33_DeleteXorPatch ==
    [][/\ Decides =>
            /\ autoshutdown_enabled(config)
            /\ sw'.i = sw.i
            /\ sw'.pc = "delete" <=>
                 LET since == sw'.annot.network_idle_since
                     cpu == sw'.annot.cpu_idle_since
                     net_over == IsSome(since) /\ now - Unwrap(since) > 1
                     cpu_over == IsSome(cpu) /\ now - Unwrap(cpu) > 1
                 IN IF IsSome(config.auto_shutdown.cpu_usage)
                    THEN /\ IsSome(since) => net_over
                         /\ IsSome(cpu) => cpu_over
                         /\ IsSome(since) \/ IsSome(cpu)
                    ELSE net_over
       /\ (sw.pc = "delete" /\ sw' # sw) =>
            /\ {[p EXCEPT !.deleting = FALSE] : p \in cluster'.pods}
                  = {[p EXCEPT !.deleting = FALSE] : p \in cluster.pods}
            /\ sw'.pc \notin {"delete", "patch"}
            /\ sw'.pc = "exec" => sw'.i > sw.i
       /\ (sw.pc = "patch" /\ sw' # sw) =>
            /\ {[p EXCEPT !.annot = NoAnnotation] : p \in cluster'.pods}
                  = {[p EXCEPT !.annot = NoAnnotation] : p \in cluster.pods}
            /\ sw'.pc \notin {"delete", "patch"}
            /\ sw'.pc = "exec" => sw'.i > sw.i
      ]_vars

\* a pod without annotation has got one: the patch of its first sweep
C33_Annotated ==
    \E p \in cluster.pods :
        /\ p.user = "bob" /\ IsSome(p.annot) /\ ~p.deleting
        /\ Unwrap(p.annot).last_idle_check = Some(now)

-----------------------------------------------------------------------------
(* The annotations the sweeper writes *)

\* C34: every annotation the sweeper writes has last_idle_check set, to a
\* reading of the clock that is not in the future, and a cpu_idle_since or
\* network_idle_since it carries is not later than last_idle_check.
C34_AnnotationOrdered ==
    [][sw.pc = "patch" =>
          \A p \in cluster'.pods \ cluster.pods :
              /\ IsSome(p.annot)
              /\ LET a == Unwrap(p.annot) IN
                 /\ IsSome(a.last_idle_check)
                 /\ Unwrap(a.last_idle_check) <= now
                 /\ IsSome(a.cpu_idle_since) =>
                        Unwrap(a.cpu_idle_since) <= Unwrap(a.last_idle_check)
                 /\ IsSome(a.network_idle_since) =>
                        Unwrap(a.network_idle_since) <= Unwrap(a.last_idle_check)
      ]_vars

\* an annotation written in this run (its check is not from before the
\* start) with both dimensions idle, the network since before the check
C34_Witness ==
    \E p \in cluster.pods :
        /\ IsSome(p.annot)
        /\ Unwrap(p.annot).last_idle_check \in {Some(0), Some(1)}
        /\ IsSome(Unwrap(p.annot).cpu_idle_since)
        /\ Unwrap(p.annot).network_idle_since = Some(-2)

-----------------------------------------------------------------------------
(* The sweeper creates nothing *)

\* the pod the sweeper is at is gone from the cluster
ListedPodGone == PodsNamed(cluster, sw.pods[sw.i].name) = {}

\* C35: no step of the sweeper creates a Pod, a Service or a volume claim.
\* When the pod a tick has listed is gone by the time the tick patches or
\* deletes it, the call fails: the cluster stays as it is, no pod of that
\* name exists afterwards, and the tick goes on.
C35_SweeperCreatesNothing ==
    [][sw' # sw =>
          /\ cluster'.pvcs = cluster.pvcs
          /\ cluster'.svcs = cluster.svcs
          /\ {<<p.name, p.uid>> : p \in cluster'.pods}
                = {<<p.name, p.uid>> : p \in cluster.pods}
          /\ (sw.pc \in {"patch", "delete"} /\ ListedPodGone) =>
                /\ cluster' = cluster
                /\ sw'.pc \in {"exec", "idle"}
                /\ sw'.pc = "exec" => sw'.i > sw.i
      ]_vars

\* the tick is about to patch a pod it has listed and probed, and the pod
\* is gone
C35_Witness == sw.pc = "patch" /\ ListedPodGone

\* the same with the delete
C35_DeleteGone == sw.pc = "delete" /\ ListedPodGone

-----------------------------------------------------------------------------
(* The sweeper and a pod that was re-created *)

\* the pods a step marks as deleted
NewlyDeleted == {p \in cluster.pods : ~p.deleting /\ [p EXCEPT !.deleting = TRUE] \in cluster'.pods}

\* C36: the sweeper deletes a pod instance only on its own record: the pod
\* a tick deletes is the instance (uid) the tick listed and analysed, not a
\* pod of the same name created since.
C36_DeletesListedInstance ==
    [][sw.pc = "delete" =>
          \A p \in NewlyDeleted : p.uid = sw.pods[sw.i].uid]_vars

\* C36, what holds: the name is the one of the listing
C36_DeletesListedName ==
    [][sw.pc = "delete" =>
          \A p \in NewlyDeleted : p.name = sw.pods[sw.i].name]_vars

-----------------------------------------------------------------------------
(* Annotations with timestamps in the future *)

\* C38: whatever the annotation of a listed pod holds, timestamps later
\* than the clock included, the sweeper task is never stopped by it: the
\* tick goes on and later ticks run.
C38_SweeperNeverStops == sw.pc # "panicked"

\* C38, what holds: a last_idle_check in the future makes the analysis of
\* that pod return an error before the probe; the tick takes the next pod.
C38_FutureCheckSkipped ==
    [][(sw.pc = "list_metrics" /\ sw' # sw
        /\ sw.pods # <<>> /\ IsSome(sw.pods[1].annot)
        /\ Unwrap(sw.pods[1].annot).last_idle_check = Some(MaxClock + 1))
          => /\ sw'.pc \in {"exec", "idle"}
             /\ sw'.pc = "exec" => sw'.i > 1
      ]_vars

\* the second pod is probed after the first, whose last check is in the
\* future, was passed over
C38_Skipped ==
    /\ sw.pc = "exec" /\ sw.i = 2
    /\ IsSome(sw.pods[1].annot)
    /\ Unwrap(sw.pods[1].annot).last_idle_check = Some(MaxClock + 1)

-----------------------------------------------------------------------------
(* Metrics that cannot be parsed *)

\* a quantity with a suffix parse_quantity does not know
Rejected(q) == q[Len(q)] \in {"n", "u"}

\* cpu_usage is configured and the metrics entry of pod j of the listing
\* holds such a quantity
Unparsable(st, j) ==
    /\ IsSome(config.auto_shutdown.cpu_usage)
    /\ \E k \in 1..Len(st.metrics) :
          /\ st.metrics[k].name = st.pods[j].name
          /\ \E c \in 1..Len(st.metrics[k].containers) :
                Rejected(st.metrics[k].containers[c])

\* C39: with cpu_usage configured, a listed pod whose metrics entry cannot be
\* parsed is passed over before the probe: the tick never execs, patches or
\* deletes it; the pods passed over between two probes, and after the last
\* probe of a tick, are exactly those, so every other pod is probed; without
\* cpu_usage no pod is passed over, whatever its metrics entry holds.
C39_UnparsableSkipped ==
    [][/\ sw'.pc \in {"exec", "delete", "patch"} => ~Unparsable(sw', sw'.i)
       /\ (LeavesPod /\ autoshutdown_enabled(config)) =>
            /\ sw'.pc \in {"exec", "idle"}
            /\ sw'.pc = "exec" =>
                  \A j \in 1..Len(sw'.pods) : (sw.i < j /\ j < sw'.i) => Unparsable(sw', j)
            /\ (sw'.pc = "idle" /\ sw.pc # "list_metrics") =>
                  \A j \in 1..Len(sw.pods) : sw.i < j => Unparsable(sw, j)
      ]_vars

\* alice's entry cannot be parsed, bob's can: bob's pod is probed, alice's
\* was passed over
C39_Witness ==
    /\ sw.pc = "exec" /\ sw.i = 2
    /\ Unparsable(sw, 1) /\ ~Unparsable(sw, 2)

\* without cpu_usage a pod with such an entry is probed
C39_NotParsed ==
    /\ sw.pc = "exec" /\ sw.i = 1
    /\ config.auto_shutdown.cpu_usage = None
    /\ sw.metrics # <<>> /\ Rejected(sw.metrics[1].containers[1])

-----------------------------------------------------------------------------
(* Auto-shutdown removes the pod only *)

\* C40: no step of the sweeper changes the Services or the volume claims; a
\* Service goes away only by the service delete of a PodStop whose get found
\* a pod; and a PodStatus that finds the Service without the Pod returns
\* NotFound and reports the service.
C40_ShutdownKeepsService ==
    [][/\ sw' # sw => cluster'.svcs = cluster.svcs /\ cluster'.pvcs = cluster.pvcs
       /\ cluster'.svcs # cluster.svcs =>
            \/ cluster.svcs \subseteq cluster'.svcs
            \/ \E s \in Callers :
                  /\ reqs[s].kind = "PodStop" /\ reqs[s].pc = "svc_delete"
                  /\ Got(reqs[s], "pod") = "found"
                  /\ cluster.svcs \ cluster'.svcs
                        = {user_service_name(Unwrap(reqs[s].user))}
       /\ \A s \in Callers :
            LET r == reqs'[s] IN
            (Finished(r, "PodStatus") /\ r.res = "ok"
             /\ Got(r, "svc") = "found" /\ Got(r, "pod") = "absent")
                => r.phase = "NotFound" /\ IsSome(r.service) /\ r.pod = None
      ]_vars

\* alice started her workspace, the sweeper shut it down (no PodStop was
\* sent: the two requests are the PodStart and this PodStatus) and the pod is
\* gone: the status is NotFound with the service, which is still there
C40_Witness ==
    /\ nreq = 2 /\ nextUid = 2
    /\ cluster.pods = {}
    /\ cluster.svcs = {"workspace-alice"} /\ cluster.pvcs = {"workspace-alice"}
    /\ \E s \in Callers :
          /\ Finished(reqs[s], "PodStatus") /\ reqs[s].res = "ok"
          /\ reqs[s].phase = "NotFound" /\ IsSome(reqs[s].service)

-----------------------------------------------------------------------------
(* Liveness of the auto-shutdown *)

\* the pod has been deleted by the sweeper
Deleted == \E p \in cluster.pods : p.deleting

\* the last recorded check of a pod that exists is at most StaleLimit
\* minutes old
ChecksInTime ==
    \A p \in cluster.pods :
        (~p.deleting /\ IsSome(p.annot) /\ IsSome(Unwrap(p.annot).last_idle_check))
            => now - Unwrap(Unwrap(p.annot).last_idle_check) <= StaleLimit

\* a call of the tick to the API server returns an error in this step: the
\* namespace lookup, the listing of the pods, the patch or the delete
CallFails ==
    /\ \E api \in ApiOutcomes \ {"ok"} :
          \/ SweepEnsureNamespace(api) \/ SweepPodsAll(api)
          \/ SweepPodDelete(api) \/ SweepPodPatch(api)
    /\ ~(\/ SweepEnsureNamespace("ok") \/ SweepPodsAll("ok")
         \/ SweepPodDelete("ok") \/ SweepPodPatch("ok"))

\* at each decision the annotation carries network_idle_since, and the
\* decision is the delete exactly when the clock is more than
\* minimum_idle_time past it
DecidesByIdleTime ==
    Decides =>
        /\ IsSome(sw'.annot.network_idle_since)
        /\ sw'.pc = "delete" <=> now - Unwrap(sw'.annot.network_idle_since) > 1

\* C37 as stated: an idle pod is shut down in the end.  With tcp_idle
\* alone, every probe answering with no connection and the checks at most
\* StaleLimit minutes apart (unless the last check of the pod is again and
\* again older than that), the sweeper eventually deletes the pod, at the
\* first decision at which the clock is more than minimum_idle_time past
\* network_idle_since.
C37_IdlePodShutDown ==
    /\ []<>(~ChecksInTime) \/ <>Deleted
    /\ [][DecidesByIdleTime]_vars

\* C37 amended: the same, provided the calls of the ticks to the API server
\* (namespace lookup, listing of the pods, patch, delete) succeed from some
\* tick on.  Every decision before the delete is a patch.
C37_IdlePodShutDownOnceCallsSucceed ==
    /\ []<><<CallFails>>_vars \/ []<>(~ChecksInTime) \/ <>Deleted
    /\ [][DecidesByIdleTime]_vars

\* the pod, idle since a minute, was checked and patched by one tick and
\* deleted by the tick a minute later, two minutes after network_idle_since
C37_Witness ==
    /\ sw.pc = "idle"
    /\ \E p \in cluster.pods :
          /\ p.deleting /\ IsSome(p.annot)
          /\ Unwrap(p.annot).last_idle_check = Some(-1)
          /\ Unwrap(p.annot).network_idle_since = Some(-2)

====
